---- MODULE Spec2Model ----
(***************************************************************************)
(* haggis.structures: _TrieNode and Trie.                                  *)
(*                                                                         *)
(* Nodes are Python objects; the model keeps them in a heap, a function    *)
(* from object identities to records             with the four slots        *)
(* key, parent, isleaf, suffixes.  The suffixes slot is either None or a   *)
(* dict; a dict keeps insertion order, so it is a sequence of              *)
(* <<key, node>> pairs.                                                    *)
(***************************************************************************)
EXTENDS Integers, Sequences, FiniteSets, TLC

\* ------------------------------------------------------------------ bounds
\* Longest item (key sequence) handed to add / remove / __contains__.
MaxLen == 2
\* add is not taken when the trie would grow beyond this many nodes.
MaxNodes == 4

\* ------------------------------------------------------------ input domain
\* Keys of the nodes: one-character strings, as in a Trie.strings() trie.
KeyList == <<"a", "b">>

Keys == {KeyList[i] : i \in 1..Len(KeyList)}

\* Position of a key in the ordering used by sorted().
KeyOrd(k) == IF k = "a" THEN 1 ELSE IF k = "b" THEN 2 ELSE 0

RECURSIVE SeqsUpTo(_)
SeqsUpTo(n) ==
    IF n = 0 THEN {<<>>}
    ELSE LET shorter == SeqsUpTo(n - 1)
         IN  shorter \cup {Append(s, k) : s \in shorter, k \in Keys}

\* The items the operations are called with.
Items == SeqsUpTo(MaxLen)

\* ------------------------------------------------------------- _TrieNode
\* The parent of the root: Python's None, as a value no identity equals.
None == <<"None">>

\* suffixes = None
NoSuffixes == [isNone |-> TRUE, d |-> <<>>]

\* suffixes = {}
EmptyDict == [isNone |-> FALSE, d |-> <<>>]

\* __init__ as a bug would have it: the parent passed in is not stored.
TrieNode_orphan(key, parent) ==
    [key |-> key, parent |-> None, isleaf |-> FALSE, suffixes |-> NoSuffixes]

\* _TrieNode.__init__(key, parent, isleaf=False)
TrieNode(key, parent) ==
    [key |-> key, parent |-> parent, isleaf |-> FALSE, suffixes |-> NoSuffixes]

\* _TrieNode.isempty: suffixes is None
isempty(h, n) == h[n].suffixes.isNone

\* key in dict
DictHas(d, key) == \E i \in 1..Len(d) : d[i][1] = key

\* dict[key]
DictGet(d, key) == d[CHOOSE i \in 1..Len(d) : d[i][1] = key][2]

\* del dict[key]: the other entries keep their order
DictDel(d, key) ==
    LET i == CHOOSE j \in 1..Len(d) : d[j][1] = key
    IN  SubSeq(d, 1, i - 1) \o SubSeq(d, i + 1, Len(d))

\* __bool__ as a bug would have it: without the test "self.parent is None"
\* an empty root that is not a leaf is false like any other node.
NodeBool_noRoot(h, n) == h[n].isleaf \/ ~isempty(h, n)

\* _TrieNode.__bool__
NodeBool(h, n) == h[n].isleaf \/ ~isempty(h, n) \/ h[n].parent = None

\* _TrieNode.__len__
NodeLen(h, n) == IF isempty(h, n) THEN 0 ELSE Len(h[n].suffixes.d)

\* _TrieNode.__contains__
NodeContains(h, n, key) ==
    IF isempty(h, n) THEN FALSE ELSE DictHas(h[n].suffixes.d, key)

\* The identity of a newly constructed object: one no live object has.
\* Identities are opaque to the program.  The allocator names a new node
\* after the place it is created at (the identity of its parent and its
\* key), marked with primes while a live object still has that name, so
\* that heaps that differ only in the naming of their objects are one state.
RECURSIVE Unused(_, _)
Unused(h, id) == IF id \notin DOMAIN h THEN id ELSE Unused(h, Append(id, "'"))

NewId(h, n, key) == Unused(h, Append(n, key))

\* __getitem__ as a bug would have it: a key that is present is taken out
\* of the mapping and put back at its end.
getitem_moveToEnd(h, n, key) ==
    LET h1 == IF isempty(h, n)
              THEN [h EXCEPT ![n].suffixes = EmptyDict]
              ELSE h
        new == NewId(h1, n, key)
        d   == h1[n].suffixes.d
        h2 == IF ~DictHas(d, key)
              THEN [i \in DOMAIN h1 \cup {new} |->
                      IF i = new THEN TrieNode(key, n)
                      ELSE IF i = n
                           THEN [h1[n] EXCEPT !.suffixes.d = Append(@, <<key, new>>)]
                           ELSE h1[i]]
              ELSE [h1 EXCEPT ![n].suffixes.d =
                        Append(DictDel(d, key), <<key, DictGet(d, key)>>)]
    IN  [heap |-> h2, node |-> DictGet(h2[n].suffixes.d, key)]

\* __getitem__ as a bug would have it: without the test "key not in
\* self.suffixes", a new node is stored under the key on every call.
getitem_replace(h, n, key) ==
    LET h1 == IF isempty(h, n)
              THEN [h EXCEPT ![n].suffixes = EmptyDict]
              ELSE h
        new == NewId(h1, n, key)
        d   == h1[n].suffixes.d
        d2  == IF DictHas(d, key)
               THEN [i \in 1..Len(d) |-> IF d[i][1] = key THEN <<key, new>> ELSE d[i]]
               ELSE Append(d, <<key, new>>)
        h2 == [i \in DOMAIN h1 \cup {new} |->
                 IF i = new THEN TrieNode(key, n)
                 ELSE IF i = n THEN [h1[n] EXCEPT !.suffixes.d = d2]
                      ELSE h1[i]]
    IN  [heap |-> h2, node |-> new]

\* _TrieNode.__getitem__: the heap after the call and the node returned.
getitem(h, n, key) ==
    LET h1 == IF isempty(h, n)
              THEN [h EXCEPT ![n].suffixes = EmptyDict]
              ELSE h
        new == NewId(h1, n, key)
        h2 == IF ~DictHas(h1[n].suffixes.d, key)
              THEN [i \in DOMAIN h1 \cup {new} |->
                      IF i = new THEN TrieNode(key, n)
                      ELSE IF i = n
                           THEN [h1[n] EXCEPT !.suffixes.d = Append(@, <<key, new>>)]
                           ELSE h1[i]]
              ELSE h1
    IN  [heap |-> h2, node |-> DictGet(h2[n].suffixes.d, key)]

\* __delitem__ as a bug would have it: the whole child mapping is dropped,
\* whatever its size.
delitem_clear(h, n, key) ==
    IF NodeContains(h, n, key)
    THEN [h EXCEPT ![n].suffixes = NoSuffixes]
    ELSE h

\* _TrieNode.__delitem__
delitem(h, n, key) ==
    IF NodeContains(h, n, key)
    THEN IF Len(h[n].suffixes.d) = 1
         THEN [h EXCEPT ![n].suffixes = NoSuffixes]
         ELSE [h EXCEPT ![n].suffixes.d = DictDel(@, key)]
    ELSE h

\* _TrieNode.keylist
keylist(h, n) ==
    IF isempty(h, n) THEN <<>>
    ELSE [i \in 1..Len(h[n].suffixes.d) |-> h[n].suffixes.d[i][1]]

\* _TrieNode.hierarchy: the keys from the root down to n, by the parent links
RECURSIVE hierarchyUp(_, _)
hierarchyUp(h, n) ==
    IF n = None THEN <<>> ELSE <<h[n].key>> \o hierarchyUp(h, h[n].parent)

Reverse(s) == [i \in 1..Len(s) |-> s[Len(s) + 1 - i]]

\* hierarchy as a bug would have it: "return p" without the reversal.
hierarchy_leafFirst(h, n) == hierarchyUp(h, n)

hierarchy(h, n) == Reverse(hierarchyUp(h, n))

\* The nodes held in n's child mapping.
Children(h, n) ==
    IF isempty(h, n) THEN {}
    ELSE {h[n].suffixes.d[i][2] : i \in 1..Len(h[n].suffixes.d)}

\* The nodes reachable from the nodes of set from by child mappings.
RECURSIVE Descendants(_, _, _)
Descendants(h, from, seen) ==
    LET next == (UNION {Children(h, n) : n \in from}) \ (seen \cup from)
    IN  IF from = {} THEN seen
        ELSE Descendants(h, next \cap DOMAIN h, seen \cup from)

\* Reference counting: an object no live object refers to is freed.  A node
\* is alive when it is a pinned node (the root of the trie, or a node a
\* suspended generator holds), is held in the child mapping of a live node,
\* or is the parent of a live node.
RECURSIVE Live(_, _, _)
Live(h, from, seen) ==
    LET refs == UNION {Children(h, n) \cup ({h[n].parent} \ {None}) : n \in from}
        next == (refs \cap DOMAIN h) \ (seen \cup from)
    IN  IF from = {} THEN seen ELSE Live(h, next, seen \cup from)

Collect(h, pins) ==
    LET live == Live(h, pins \cap DOMAIN h, {})
    IN  [i \in live |-> h[i]]


\* ------------------------------------------------------------------ Trie
\* The slots of the Trie (root, len, sorter, joiner), the heap of its nodes,
\* and two records kept beside the program: S, the set of items a reference
\* set would hold, and log, the last call with its arguments, its results
\* and the state it started from.
VARIABLES heap, root, len, sorter, joiner, S, log, iters

\* The state of the other parts of the package, each with a specification
\* of its own: path, a call of the joiner of Trie.string_paths(); cfg, a
\* JSONConfiguration and a call of its _update; hb, a Heartbeat thread and
\* its owner; mc, a mapping and the mapping_context objects made for it.
VARIABLES path, cfg, hb, mc

trie == <<heap, root, len, sorter, joiner, S, log, iters>>

others == <<path, cfg, hb, mc>>

vars == <<heap, root, len, sorter, joiner, S, log, iters, path, cfg, hb, mc>>

\* Trie.add, the loop "for elem in item: node = node[elem]"
RECURSIVE addWalk(_, _, _)
addWalk(h, n, item) ==
    IF item = <<>> THEN [heap |-> h, node |-> n]
    ELSE LET g == getitem(h, n, Head(item))
         IN  addWalk(g.heap, g.node, Tail(item))

\* add as a bug would have it: "self.len += 1" ahead of the isleaf test.
add_countFirst(h, r, l, item) ==
    LET w == addWalk(h, r, item)
    IN  IF w.heap[w.node].isleaf
        THEN [heap |-> w.heap, len |-> l + 1, ret |-> FALSE, exc |-> ""]
        ELSE [heap |-> [w.heap EXCEPT ![w.node].isleaf = TRUE],
              len |-> l + 1, ret |-> TRUE, exc |-> ""]

\* Trie.add(item): the heap and len after the call, and the value returned.
add(h, r, l, item) ==
    LET w == addWalk(h, r, item)
    IN  IF w.heap[w.node].isleaf
        THEN [heap |-> w.heap, len |-> l, ret |-> FALSE, exc |-> ""]
        ELSE [heap |-> [w.heap EXCEPT ![w.node].isleaf = TRUE],
              len |-> l + 1, ret |-> TRUE, exc |-> ""]

\* The loop as a bug would have it: without the test "elem not in node",
\* node[elem] makes the nodes that are missing.
RECURSIVE findWalk_create(_, _, _)
findWalk_create(h, n, item) ==
    IF item = <<>> THEN [heap |-> h, node |-> n, found |-> TRUE]
    ELSE LET g == getitem(h, n, Head(item))
         IN  findWalk_create(g.heap, g.node, Tail(item))

\* Trie.remove and Trie.__contains__, the loop
\*   for elem in item:
\*       if elem not in node: return False
\*       node = node[elem]
RECURSIVE findWalk(_, _, _)
findWalk(h, n, item) ==
    IF item = <<>> THEN [heap |-> h, node |-> n, found |-> TRUE]
    ELSE IF ~NodeContains(h, n, Head(item))
         THEN [heap |-> h, node |-> n, found |-> FALSE]
         ELSE LET g == getitem(h, n, Head(item))
              IN  findWalk(g.heap, g.node, Tail(item))

\* The loop as a bug would have it: "if not node" in place of "while not
\* node", so that one node at most is deleted.
prune_once(h, n) ==
    IF NodeBool(h, n) THEN [heap |-> h, exc |-> ""]
    ELSE IF h[n].parent = None THEN [heap |-> h, exc |-> "TypeError"]
         ELSE [heap |-> delitem(h, h[n].parent, h[n].key), exc |-> ""]

\* Trie.remove, the loop
\*   while not node:
\*       del node.parent[node.key]
\*       node = node.parent
\* Deleting from a parent that is None raises TypeError.
RECURSIVE prune(_, _)
prune(h, n) ==
    IF NodeBool(h, n) THEN [heap |-> h, exc |-> ""]
    ELSE IF h[n].parent = None THEN [heap |-> h, exc |-> "TypeError"]
         ELSE prune(delitem(h, h[n].parent, h[n].key), h[n].parent)

\* remove as a bug would have it: without "self.len -= 1".
remove_noDec(h, r, l, item) ==
    LET w == findWalk(h, r, item)
    IN  IF ~w.found
        THEN [heap |-> w.heap, len |-> l, ret |-> FALSE, exc |-> ""]
        ELSE IF w.heap[w.node].isleaf
             THEN LET h1 == [w.heap EXCEPT ![w.node].isleaf = FALSE]
                      p  == prune(h1, w.node)
                  IN  [heap |-> p.heap, len |-> l,
                       ret |-> (p.exc = ""), exc |-> p.exc]
             ELSE [heap |-> w.heap, len |-> l, ret |-> FALSE, exc |-> ""]

\* remove as a bug would have it: without "node.isleaf = False".
remove_keepLeaf(h, r, l, item) ==
    LET w == findWalk(h, r, item)
    IN  IF ~w.found
        THEN [heap |-> w.heap, len |-> l, ret |-> FALSE, exc |-> ""]
        ELSE IF w.heap[w.node].isleaf
             THEN LET p == prune(w.heap, w.node)
                  IN  [heap |-> p.heap, len |-> l - 1,
                       ret |-> (p.exc = ""), exc |-> p.exc]
             ELSE [heap |-> w.heap, len |-> l, ret |-> FALSE, exc |-> ""]

\* remove as a bug would have it: without the loop "while not node", so
\* that the node is unmarked and nothing is deleted.
remove_noPrune(h, r, l, item) ==
    LET w == findWalk(h, r, item)
    IN  IF ~w.found
        THEN [heap |-> w.heap, len |-> l, ret |-> FALSE, exc |-> ""]
        ELSE IF w.heap[w.node].isleaf
             THEN [heap |-> [w.heap EXCEPT ![w.node].isleaf = FALSE],
                   len |-> l - 1, ret |-> TRUE, exc |-> ""]
             ELSE [heap |-> w.heap, len |-> l, ret |-> FALSE, exc |-> ""]

\* Trie.remove(item)
remove(h, r, l, item) ==
    LET w == findWalk(h, r, item)
    IN  IF ~w.found
        THEN [heap |-> w.heap, len |-> l, ret |-> FALSE, exc |-> ""]
        ELSE IF w.heap[w.node].isleaf
             THEN LET h1 == [w.heap EXCEPT ![w.node].isleaf = FALSE]
                      p  == prune(h1, w.node)
                  IN  [heap |-> p.heap, len |-> l - 1,
                       ret |-> (p.exc = ""), exc |-> p.exc]
             ELSE [heap |-> w.heap, len |-> l, ret |-> FALSE, exc |-> ""]

\* Trie.__len__
TrieLen(l) == l

\* __contains__ as a bug would have it: true for every node on a path,
\* leaf or not.
contains_prefix(h, r, item) ==
    LET w == findWalk(h, r, item)
    IN  [heap |-> w.heap, ret |-> w.found]

\* Trie.__contains__(item)
contains(h, r, item) ==
    LET w == findWalk(h, r, item)
    IN  IF ~w.found
        THEN [heap |-> w.heap, ret |-> FALSE]
        ELSE [heap |-> w.heap, ret |-> w.heap[w.node].isleaf]

\* ------------------------------------------------------------- Trie.iter
\* sorted(keys)
RECURSIVE Insert(_, _)
Insert(k, s) ==
    IF s = <<>> THEN <<k>>
    ELSE IF KeyOrd(k) < KeyOrd(Head(s)) THEN <<k>> \o s
         ELSE <<Head(s)>> \o Insert(k, Tail(s))

RECURSIVE sorted(_)
sorted(s) == IF s = <<>> THEN <<>> ELSE Insert(Head(s), sorted(Tail(s)))

IsNotB(k) == k # "b"

\* The sorters the model calls iter with.  "identity" is the default
\* (lambda x: x) and "sorted" the one of Trie.strings(); "filter" returns a
\* subset of its input (everything but "b"), which the documentation of
\* iter allows; "extend" returns keys that are not in its input (every key,
\* when its input is not empty).
applySorter(name, keys) ==
    CASE name = "identity" -> keys
      [] name = "sorted"   -> sorted(keys)
      [] name = "filter"   -> SelectSeq(keys, IsNotB)
      [] name = "extend"   -> IF keys = <<>> THEN <<>> ELSE KeyList

\* ''.join(keys)
RECURSIVE join(_)
join(keys) == IF keys = <<>> THEN "" ELSE Head(keys) \o join(Tail(keys))

\* The joiners: tuple (the default) and ''.join (Trie.strings()).
applyJoiner(name, keys) ==
    CASE name = "tuple" -> keys
      [] name = "join"  -> join(keys)

\* A frame of the generator dfs_node(node).  At "yield" it is suspended at
\* "yield node"; in "loop" it is in "for key in sorter(node.keylist)", keys
\* being the list the sorter returned and i the number of keys taken from it.
Frame(n) == [node |-> n, at |-> "start", keys |-> <<>>, i |-> 0]

\* dfs_node, run from its resumption to its next yield or to its end: the
\* heap, the stack of frames (innermost last) and the node yielded (None
\* when the outermost generator has ended).
RECURSIVE dfsEnter(_, _, _)
RECURSIVE dfsLoop(_, _, _)
\* The generator as a bug would have it: "yield node" without the test of
\* node.isleaf, so that every node is yielded.
dfsEnter_yieldAll(h, frames, srt) ==
    LET top  == frames[Len(frames)]
        rest == SubSeq(frames, 1, Len(frames) - 1)
    IN  IF top.at = "start"
        THEN [heap |-> h, frames |-> Append(rest, [top EXCEPT !.at = "yield"]),
              node |-> top.node]
        ELSE dfsLoop(h,
                     Append(rest, [top EXCEPT !.at = "loop",
                                   !.keys = applySorter(srt, keylist(h, top.node))]),
                     srt)

\* def dfs_node(node): if node.isleaf: yield node
dfsEnter(h, frames, srt) ==
    LET top  == frames[Len(frames)]
        rest == SubSeq(frames, 1, Len(frames) - 1)
    IN  IF top.at = "start" /\ h[top.node].isleaf
        THEN [heap |-> h, frames |-> Append(rest, [top EXCEPT !.at = "yield"]),
              node |-> top.node]
        ELSE dfsLoop(h,
                     Append(rest, [top EXCEPT !.at = "loop",
                                   !.keys = applySorter(srt, keylist(h, top.node))]),
                     srt)

\* The loop as a bug would have it: the keys the sorter returned are taken
\* from the last to the first.
RECURSIVE dfsLoop_backwards(_, _, _)
dfsLoop_backwards(h, frames, srt) ==
    IF frames = <<>> THEN [heap |-> h, frames |-> <<>>, node |-> None]
    ELSE LET top  == frames[Len(frames)]
             rest == SubSeq(frames, 1, Len(frames) - 1)
         IN  IF top.i = Len(top.keys) THEN dfsLoop_backwards(h, rest, srt)
             ELSE LET g == getitem(h, top.node, top.keys[Len(top.keys) - top.i])
                  IN  dfsEnter(g.heap,
                               Append(Append(rest, [top EXCEPT !.i = @ + 1]),
                                      Frame(g.node)),
                               srt)

\* for key in sorter(node.keylist): yield from dfs_node(node[key])
dfsLoop(h, frames, srt) ==
    IF frames = <<>> THEN [heap |-> h, frames |-> <<>>, node |-> None]
    ELSE LET top  == frames[Len(frames)]
             rest == SubSeq(frames, 1, Len(frames) - 1)
         IN  IF top.i = Len(top.keys) THEN dfsLoop(h, rest, srt)
             ELSE LET g == getitem(h, top.node, top.keys[top.i + 1])
                  IN  dfsEnter(g.heap,
                               Append(Append(rest, [top EXCEPT !.i = @ + 1]),
                                      Frame(g.node)),
                               srt)

\* The extend as a bug would have it: each child is taken out of the mapping
\* of its parent as it joins the deque.
RECURSIVE extend_pop(_, _, _, _)
extend_pop(h, queue, n, keys) ==
    IF keys = <<>> THEN [heap |-> h, queue |-> queue]
    ELSE LET g == getitem(h, n, Head(keys))
         IN  extend_pop(delitem(g.heap, n, Head(keys)), Append(queue, g.node),
                        n, Tail(keys))

\* The extend as a bug would have it: "type(node)(suffix, node)" stored
\* under the key in place of node[suffix], a new node for every child.
RECURSIVE extend_replace(_, _, _, _)
extend_replace(h, queue, n, keys) ==
    IF keys = <<>> THEN [heap |-> h, queue |-> queue]
    ELSE LET g == getitem_replace(h, n, Head(keys))
         IN  extend_replace(g.heap, Append(queue, g.node), n, Tail(keys))

\* stack.extend(node[suffix] for suffix in sorter(node.keylist)), keys being
\* the keys the sorter returned.
RECURSIVE extend(_, _, _, _)
extend(h, queue, n, keys) ==
    IF keys = <<>> THEN [heap |-> h, queue |-> queue]
    ELSE LET g == getitem(h, n, Head(keys))
         IN  extend(g.heap, Append(queue, g.node), n, Tail(keys))

\* The body of "while stack:" from the popleft to the next yield or to the
\* end of the loop: the heap, the deque, and the node whose value is
\* yielded (None when the loop has ended).
RECURSIVE bfsLoop(_, _, _)
\* The loop as a bug would have it: "stack.pop()" in place of
\* "stack.popleft()", the deque used as a stack.
RECURSIVE bfsLoop_pop(_, _, _)
bfsLoop_pop(h, queue, srt) ==
    IF queue = <<>> THEN [heap |-> h, queue |-> <<>>, node |-> None]
    ELSE LET n    == queue[Len(queue)]
             rest == SubSeq(queue, 1, Len(queue) - 1)
         IN  IF h[n].isleaf
             THEN [heap |-> h, queue |-> rest, node |-> n]
             ELSE LET e == extend(h, rest, n, applySorter(srt, keylist(h, n)))
                  IN  bfsLoop_pop(e.heap, e.queue, srt)

\* while stack: node = stack.popleft() ...
bfsLoop(h, queue, srt) ==
    IF queue = <<>> THEN [heap |-> h, queue |-> <<>>, node |-> None]
    ELSE LET n == Head(queue)
         IN  IF h[n].isleaf
             THEN [heap |-> h, queue |-> Tail(queue), node |-> n]
             ELSE LET e == extend(h, Tail(queue), n,
                                  applySorter(srt, keylist(h, n)))
                  IN  bfsLoop(e.heap, e.queue, srt)

\* The resumption as a bug would have it: the extend in the else branch of
\* "if node.isleaf", so that the children of a leaf never join the deque.
bfsResume_noExtend(h, queue, n, srt) == bfsLoop(h, queue, srt)

\* The breadth-first generator resumed after "yield joiner(node.hierarchy)":
\* the children of node join the deque and the loop goes on.
bfsResume(h, queue, n, srt) ==
    LET e == extend(h, queue, n, applySorter(srt, keylist(h, n)))
    IN  bfsLoop(e.heap, e.queue, srt)

\* A generator object made by Trie.iter(sorter, joiner, dfs).  Its status is
\* "none" (no such object), "created" (not started), "suspended" (at a
\* yield), "done" (ended) or "dropped" (abandoned by its owner).  sorter and
\* joiner are the arguments of the call, "" for None.  out lists the values
\* it has yielded; heap0 and len0 are the heap and len when iter was called.
NoIter ==
    [status |-> "none", dfs |-> TRUE, sorter |-> "", joiner |-> "",
     frames |-> <<>>, node |-> None, queue |-> <<>>, out |-> <<>>,
     heap0 |-> <<>>, len0 |-> 0]

\* Trie.iter(sorter, joiner, dfs): calling a generator function runs none of
\* its body.
iter(h, l, srt, jnr, dfs) ==
    [status |-> "created", dfs |-> dfs, sorter |-> srt, joiner |-> jnr,
     frames |-> <<>>, node |-> None, queue |-> <<>>, out |-> <<>>,
     heap0 |-> h, len0 |-> l]

\* "if sorter is None: sorter = self.sorter", and the same for the joiner
Resolve(arg, own) == IF arg = "" THEN own ELSE arg

\* next(it): the generator runs to its next yield or to its end.
\* The heap after it and the generator.
pull(h, r, it, ownSorter, ownJoiner) ==
    LET srt == Resolve(it.sorter, ownSorter)
        jnr == Resolve(it.joiner, ownJoiner)
    IN  IF it.dfs
        THEN LET d == IF it.status = "created"
                      THEN dfsEnter(h, <<Frame(r)>>, srt)
                      ELSE dfsEnter(h, it.frames, srt)
             IN  [heap |-> d.heap,
                  it |-> [it EXCEPT
                            !.status = IF d.node = None THEN "done" ELSE "suspended",
                            !.frames = d.frames,
                            !.out = IF d.node = None THEN @
                                    ELSE Append(@, applyJoiner(jnr, hierarchy(d.heap, d.node)))]]
        ELSE LET b == IF it.status = "created"
                      THEN bfsLoop(h, <<r>>, srt)
                      ELSE bfsResume(h, it.queue, it.node, srt)
             IN  [heap |-> b.heap,
                  it |-> [it EXCEPT
                            !.status = IF b.node = None THEN "done" ELSE "suspended",
                            !.node = b.node,
                            !.queue = b.queue,
                            !.out = IF b.node = None THEN @
                                    ELSE Append(@, applyJoiner(jnr, hierarchy(b.heap, b.node)))]]

\* ------------------------------------------------------------ the calls
\* The log entry of a call: its arguments and results, the heap and len it
\* started from (heap0, len0), whether the reference set held the item
\* (in0), and whether the call right before it was an add of the same item
\* that the reference set did not hold then (afterAdd; len00 is len before
\* that add).
Entry(op, item, ret, exc) ==
    [op |-> op, item |-> item, ret |-> ret, exc |-> exc,
     heap0 |-> heap, len0 |-> len, in0 |-> item \in S,
     afterAdd |-> (log.op = "add" /\ log.item = item /\ ~log.in0),
     len00 |-> IF log.op = "add" /\ log.item = item /\ ~log.in0
               THEN log.len0 ELSE 0]

\* The generator objects of the model.
ItIds == {1, 2}

Started(it) == it.status \in {"created", "suspended"}

\* The nodes a generator refers to: those of its frames, or its deque and
\* its local variable node.
Held(it) ==
    IF ~Started(it) THEN {}
    ELSE {it.frames[j].node : j \in 1..Len(it.frames)}
         \cup {it.queue[j] : j \in 1..Len(it.queue)}
         \cup ({it.node} \ {None})

\* The nodes something outside the heap refers to.
Pins == {root} \cup UNION {Held(iters[i]) : i \in ItIds}

\* The record of a dropped generator is kept until the trie is next changed.
Forget(its) ==
    [i \in DOMAIN its |-> IF its[i].status = "dropped" THEN NoIter ELSE its[i]]

\* The identity of the root node, the first object made.
RootId == <<>>

\* Trie.__init__ on a new object: an empty trie.  Trie() has the root key
\* None, no sorting and tuple as joiner; Trie.strings() has the root key '',
\* sorted as sorter and ''.join as joiner.
Presets ==
    {[empty |-> "None", sorter |-> "identity", joiner |-> "tuple"],
     [empty |-> "", sorter |-> "sorted", joiner |-> "join"]}

\* No call of the joiner of Trie.string_paths() has been made.
NoPath == [platform |-> "posix", parts |-> <<>>, pc |-> "idle", out |-> <<>>]

\* No JSONConfiguration or mapping_context has been made.
NoCfg == [pc |-> "idle"]

\* Heartbeat.__init__: the object before start() is called.  running and
\* suspended are its attributes and pc is the position of its thread in
\* run.  Kept beside the program: started, stopped and failed (start() was
\* called; stop() was called, an exception left a suspend() block, after
\* start()), blocks (the suspend() blocks that are open), call (where the
\* owner is inside start(): "" outside it, "start" after line 67, "wait"
\* while Thread.start() waits for the new thread), last (the last call of
\* the owner that ended), exc (the exception that call raised) and late
\* (emit was called after stop()).
Heartbeat ==
    [running |-> FALSE, suspended |-> FALSE, pc |-> "new",
     started |-> FALSE, stopped |-> FALSE, failed |-> FALSE,
     blocks |-> 0, call |-> "", last |-> "init", exc |-> "", late |-> FALSE]

NoMc == [pc |-> "idle"]

\* The empty trie Trie.string_paths() makes, which stands by in the
\* specifications of the other parts.
InitStandby ==
    /\ root = RootId
    /\ heap = [i \in {RootId} |-> TrieNode("", None)]
    /\ len = 0
    /\ sorter = "sorted"
    /\ joiner = "pathJoiner"
    /\ S = {}
    /\ log = [op |-> "init", item |-> <<>>, ret |-> FALSE, exc |-> "",
               heap0 |-> [i \in {RootId} |-> TrieNode("", None)],
               len0 |-> 0, in0 |-> FALSE, afterAdd |-> FALSE, len00 |-> 0]
    /\ iters = [i \in ItIds |-> NoIter]

Init ==
    \E p \in Presets :
        /\ path = NoPath
        /\ cfg = NoCfg
        /\ hb = Heartbeat
        /\ mc = NoMc
        /\ root = RootId
        /\ heap = [i \in {RootId} |-> TrieNode(p.empty, None)]
        /\ len = 0
        /\ sorter = p.sorter
        /\ joiner = p.joiner
        /\ S = {}
        /\ log = [op |-> "init", item |-> <<>>, ret |-> FALSE, exc |-> "",
                   heap0 |-> [i \in {RootId} |-> TrieNode(p.empty, None)],
                   len0 |-> 0, in0 |-> FALSE, afterAdd |-> FALSE, len00 |-> 0]
        /\ iters = [i \in ItIds |-> NoIter]

\* trie.add(item)
AddStep(item) ==
    LET r == add(heap, root, len, item)
    IN  /\ Cardinality(DOMAIN r.heap) <= MaxNodes
        /\ heap' = Collect(r.heap, Pins)
        /\ len' = r.len
        /\ S' = S \cup {item}
        /\ iters' = Forget(iters)
        /\ UNCHANGED <<root, sorter, joiner, others>>

\* trie.remove(item)
RemoveStep(item) ==
    LET r == remove(heap, root, len, item)
    IN  /\ heap' = Collect(r.heap, Pins)
        /\ len' = r.len
        /\ S' = S \ {item}
        /\ iters' = Forget(iters)
        /\ UNCHANGED <<root, sorter, joiner, others>>

\* item in trie
ContainsStep(item) ==
    LET r == contains(heap, root, item)
    IN  /\ heap' = Collect(r.heap, Pins)
        /\ UNCHANGED <<root, len, sorter, joiner, S, iters, others>>

AddCall(item) ==
    /\ AddStep(item)
    /\ log' = Entry("add", item, add(heap, root, len, item).ret,
                    add(heap, root, len, item).exc)

RemoveCall(item) ==
    /\ RemoveStep(item)
    /\ log' = Entry("remove", item, remove(heap, root, len, item).ret,
                    remove(heap, root, len, item).exc)

ContainsCall(item) ==
    /\ ContainsStep(item)
    /\ log' = Entry("contains", item, contains(heap, root, item).ret, "")

Add == \E item \in Items : AddCall(item)

Remove == \E item \in Items : RemoveCall(item)

Contains == \E item \in Items : ContainsCall(item)

Next == Add \/ Remove \/ Contains

\* Calls of add, remove and __contains__ in any order.
Spec == Init /\ [][Next]_vars

\* ---------------------------------------------------- iterating the trie
\* The arguments iter is called with: a sorter or None ("" stands for None,
\* which selects the sorter of the trie), the joiner None, and dfs.
SorterArgs == {"", "filter"}

NoneStarted == \A i \in ItIds : iters[i].status \in {"none", "dropped"}

\* it = trie.iter(sorter, None, dfs).  The second generator is made while
\* the first exists, by a call with the same sorter.
IterCall(i, srt, dfs) ==
    /\ iters[i].status \in {"none", "dropped"}
    /\ i = 2 => /\ iters[1].status # "none"
                /\ iters[1].sorter = srt
    /\ iters' = [iters EXCEPT ![i] = iter(heap, len, srt, "", dfs)]
    /\ UNCHANGED <<heap, root, len, sorter, joiner, S, log, others>>

\* next(it)
PullCall(i) ==
    LET r == pull(heap, root, iters[i], sorter, joiner)
    IN  /\ Started(iters[i])
        /\ iters' = [iters EXCEPT ![i] = r.it]
        /\ heap' = Collect(r.heap, {root} \cup Held(r.it)
                                   \cup UNION {Held(iters[j]) : j \in ItIds \ {i}})
        /\ UNCHANGED <<root, len, sorter, joiner, S, log, others>>

\* The owner of the first generator drops it, after the second if there is
\* one: its frames are freed.
AbandonCall(i) ==
    /\ iters[i].status \in {"created", "suspended", "done"}
    /\ i = 1 => iters[2].status = "none"
    /\ iters' = [iters EXCEPT ![i] = NoIter]
    /\ heap' = Collect(heap, {root} \cup UNION {Held(iters[j]) : j \in ItIds \ {i}})
    /\ UNCHANGED <<root, len, sorter, joiner, S, log, others>>

Build ==
    /\ NoneStarted
    /\ \E item \in Items : AddStep(item) \/ RemoveStep(item)
    /\ UNCHANGED log

Iter == \E i \in ItIds, srt \in SorterArgs, dfs \in BOOLEAN : IterCall(i, srt, dfs)

Pull == \E i \in ItIds : PullCall(i)

Abandon == \E i \in ItIds : AbandonCall(i)

NextIter == Build \/ Iter \/ Pull \/ Abandon

\* Tries built by add and remove and then iterated over, by up to two
\* generators at a time, while no add or remove is called.
SpecIter == Init /\ [][NextIter]_vars

\* ------------------------------------------------- abandoning a generator
\* The sorters of these calls include one that returns keys it was not
\* given.
DropSorterArgs == {"", "filter", "extend"}

IterOne == \E srt \in DropSorterArgs, dfs \in BOOLEAN :
               /\ iters[2].status = "none"
               /\ IterCall(1, srt, dfs)

PullOne == PullCall(1)

\* The owner of the generator drops it at any point: its frames are freed.
DropOne ==
    /\ iters[1].status \in {"created", "suspended", "done"}
    /\ iters' = [iters EXCEPT ![1] =
                   [@ EXCEPT !.status = "dropped", !.frames = <<>>,
                             !.queue = <<>>, !.node = None]]
    /\ heap' = Collect(heap, {root})
    /\ UNCHANGED <<root, len, sorter, joiner, S, log, others>>

NextDrop == Build \/ IterOne \/ PullOne \/ DropOne

\* Tries built by add and remove; one generator at a time, pulled from any
\* number of times and then dropped.
SpecDrop == Init /\ [][NextDrop]_vars

\* ------------------------------------------------------------ the claims
Range(s) == {s[i] : i \in 1..Len(s)}

\* The nodes reachable from the root by the child mappings.
Nodes == Descendants(heap, {root}, {})

\* The leaves among them.
Leaves == {n \in Nodes : heap[n].isleaf}

\* The key lists from node n down through the child mappings, each with the
\* node it ends at; prefix is the key list from the root to n's parent.
RECURSIVE PathsFrom(_, _, _)
PathsFrom(h, n, prefix) ==
    LET here == Append(prefix, h[n].key)
    IN  {<<here, n>>} \cup UNION {PathsFrom(h, c, here) : c \in Children(h, n)}

\* The root-to-leaf key lists (root key first) of the leaves.
LeafPaths == {p[1] : p \in {q \in PathsFrom(heap, root, <<>>) : heap[q[2]].isleaf}}

\* The lists of distinct keys a sorter can be given.
KeyLists ==
    {ks \in SeqsUpTo(Len(KeyList)) :
        \A i, j \in 1..Len(ks) : i # j => ks[i] # ks[j]}

\* The sorter returns only keys from the list it is given.
ReturnsGivenKeys(name) ==
    \A ks \in KeyLists : Range(applySorter(name, ks)) \subseteq Range(ks)

\* The sorter returns a permutation of the list it is given.
ReturnsPermutation(name) ==
    \A ks \in KeyLists :
        /\ Len(applySorter(name, ks)) = Len(ks)
        /\ Range(applySorter(name, ks)) = Range(ks)

\* The sorter and the joiner a generator runs with.
SorterOf(it) == Resolve(it.sorter, sorter)

JoinerOf(it) == Resolve(it.joiner, joiner)

\* A generator run alone to its end on heap h: the values it yields.
RECURSIVE drain(_, _)
drain(h, it) ==
    IF it.status = "done" THEN it.out
    ELSE LET p == pull(h, root, it, sorter, joiner)
         IN  drain(p.heap, p.it)

IsPrefix(s, t) == Len(s) <= Len(t) /\ s = SubSeq(t, 1, Len(s))

\* C1: len(trie) is the number of nodes reachable from the root whose isleaf
\* flag is true, after any sequence of add and remove calls.
C1_LenIsLeafCount == TrieLen(len) = Cardinality(Leaves)

\* A successful remove has left two leaves or more.
C1_Witness == log.op = "remove" /\ log.ret /\ Cardinality(Leaves) >= 2

\* C2: after any sequence of add and remove calls every node other than the
\* root is a leaf or has at least one child.
C2_NoDeadNode ==
    \A n \in Nodes : n # root => heap[n].isleaf \/ Children(heap, n) # {}

\* A remove has deleted two nodes and left others behind.
C2_Witness ==
    /\ log.op = "remove" /\ log.ret
    /\ Cardinality(DOMAIN log.heap0) = Cardinality(DOMAIN heap) + 2
    /\ Cardinality(Nodes) >= 2

\* C3: beside a reference set S (add(s) puts s in, remove(s) takes it out),
\* t in trie is true exactly for the t in S, add(s) returns true exactly
\* when s was not in S, and remove(s) returns true exactly when s was in S.
C3_RefinesSet ==
    /\ \A t \in SeqsUpTo(MaxLen + 1) : contains(heap, root, t).ret = (t \in S)
    /\ log.op = "add" => log.exc = "" /\ log.ret = ~log.in0
    /\ log.op = "remove" => log.exc = "" /\ log.ret = log.in0
    /\ log.op = "contains" => log.ret = log.in0

\* An item of two keys has been added whose one-key prefix is a node of the
\* trie and not in the set, beside another item that is in the set.
C3_Witness ==
    /\ log.op = "add" /\ log.ret /\ Len(log.item) = 2
    /\ SubSeq(log.item, 1, 1) \notin S
    /\ findWalk(heap, root, SubSeq(log.item, 1, 1)).found
    /\ Cardinality(S) >= 2

\* C4: for s not in the trie, add(s) twice in a row returns true and then
\* false; the second call changes nothing, and len is 1 more than before
\* the two calls.
C4_AddTwice ==
    /\ log.op = "add" /\ ~log.in0 => log.ret /\ len = log.len0 + 1
    /\ log.op = "add" /\ log.afterAdd =>
           /\ ~log.ret
           /\ heap = log.heap0
           /\ len = log.len0
           /\ len = log.len00 + 1

\* The second of two add calls with the same item of two keys has returned.
C4_Witness == log.op = "add" /\ log.afterAdd /\ Len(log.item) = 2

\* C5: for s not in the trie, add(s) followed by remove(s): remove returns
\* true, s is not in the trie afterwards, and len is what it was before the
\* add.
C5_AddRemove ==
    log.op = "remove" /\ log.afterAdd =>
        /\ log.ret /\ log.exc = ""
        /\ ~contains(heap, root, log.item).ret
        /\ len = log.len00

\* remove(s) has returned right after add(s), s of two keys, in a trie that
\* holds other items.
C5_Witness ==
    log.op = "remove" /\ log.afterAdd /\ Len(log.item) = 2 /\ len >= 1

\* C6: a remove that does not return true, and any __contains__, raise
\* nothing and leave the heap (nodes, leaf flags, child mappings) and len as
\* they were.
C6_NoEffect ==
    (log.op = "remove" /\ ~log.ret) \/ log.op = "contains" =>
        /\ log.exc = ""
        /\ heap = log.heap0
        /\ len = log.len0

\* remove(s) has returned false for an s whose last node exists and is not a
\* leaf.
C6_Witness ==
    /\ log.op = "remove" /\ ~log.ret /\ log.item # <<>>
    /\ findWalk(heap, root, log.item).found

\* C7: with a sorter that returns a permutation of its input, the values of
\* a full iteration are, as a set, the joined root-to-leaf key lists of the
\* leaves, in depth-first and in breadth-first mode alike.
C7_IterCompleteness ==
    /\ \A i \in ItIds :
           iters[i].status = "done" /\ ReturnsPermutation(SorterOf(iters[i])) =>
               Range(iters[i].out) =
                   {applyJoiner(JoinerOf(iters[i]), p) : p \in LeafPaths}
    /\ (/\ iters[1].status = "done" /\ iters[2].status = "done"
        /\ iters[1].dfs # iters[2].dfs
        /\ ReturnsPermutation(SorterOf(iters[1])))
           => Range(iters[1].out) = Range(iters[2].out)

\* A depth-first and a breadth-first iteration have ended with the same
\* values in different orders.
C7_Witness ==
    /\ iters[1].status = "done" /\ iters[2].status = "done"
    /\ iters[1].dfs # iters[2].dfs
    /\ ReturnsPermutation(SorterOf(iters[1]))
    /\ iters[1].out # iters[2].out
    /\ Len(iters[1].out) >= 2

\* C8: two full iterations in the same mode with the same sorter and joiner
\* over a trie that is not modified yield the same values in the same order.
C8_Restartable ==
    (/\ iters[1].status = "done" /\ iters[2].status = "done"
     /\ iters[1].dfs = iters[2].dfs
     /\ iters[1].sorter = iters[2].sorter
     /\ iters[1].joiner = iters[2].joiner)
        => iters[1].out = iters[2].out

\* Two iterations in the same mode have ended with two values or more.
C8_Witness ==
    /\ iters[1].status = "done" /\ iters[2].status = "done"
    /\ iters[1].dfs = iters[2].dfs
    /\ Len(iters[1].out) >= 2 /\ Len(iters[2].out) >= 2

\* C9: of two generators over the same unmodified trie, pulled from in any
\* interleaving, each yields the values it would yield run alone, in the
\* same order.
C9_Independent ==
    \A i \in ItIds :
        LET alone == drain(iters[i].heap0,
                           iter(iters[i].heap0, iters[i].len0, iters[i].sorter,
                                iters[i].joiner, iters[i].dfs))
        IN  /\ Started(iters[i]) => IsPrefix(iters[i].out, alone)
            /\ iters[i].status = "done" => iters[i].out = alone

\* Both generators are part-way: each has yielded a value and has more to
\* yield, and they have yielded different numbers of values.
C9_Witness ==
    /\ iters[1].status = "suspended" /\ iters[2].status = "suspended"
    /\ Len(iters[1].out) = 2 /\ Len(iters[2].out) = 1
    /\ Len(drain(heap, iters[1])) > 2

\* C10: pulling any number of values from a generator and dropping it leaves
\* the heap and len as they were when iter was called, when the sorter
\* returns only keys from the list it is given.
C10_AbandonHarmless ==
    iters[1].status # "none" /\ ReturnsGivenKeys(SorterOf(iters[1])) =>
        /\ heap = iters[1].heap0
        /\ len = iters[1].len0

\* A generator has been dropped after one value, with values left to yield.
C10_Witness ==
    /\ iters[1].status = "dropped"
    /\ ReturnsGivenKeys(SorterOf(iters[1]))
    /\ Len(iters[1].out) = 1
    /\ Cardinality(Leaves) >= 2

\* C11: after any sequence of add and remove calls exactly one node, the
\* root, has parent None; every other node is stored in the child mapping of
\* its parent under its own key; every entry of a child mapping holds a node
\* whose parent and key are that mapping's owner and that entry's key; and
\* every node is reachable from the root.
C11_ParentChildConsistent ==
    /\ {n \in DOMAIN heap : heap[n].parent = None} = {root}
    /\ \A n \in DOMAIN heap \ {root} :
          /\ heap[n].parent \in DOMAIN heap
          /\ NodeContains(heap, heap[n].parent, heap[n].key)
          /\ DictGet(heap[heap[n].parent].suffixes.d, heap[n].key) = n
    /\ \A n \in DOMAIN heap :
          ~isempty(heap, n) =>
             \A i \in 1..Len(heap[n].suffixes.d) :
                LET e == heap[n].suffixes.d[i]
                IN  /\ e[2] \in DOMAIN heap
                    /\ heap[e[2]].parent = n
                    /\ heap[e[2]].key = e[1]
    /\ DOMAIN heap = Nodes

\* A remove has pruned a branch and left a trie of three nodes or more.
C11_Witness ==
    /\ log.op = "remove" /\ log.ret
    /\ Cardinality(DOMAIN heap) < Cardinality(DOMAIN log.heap0)
    /\ Cardinality(DOMAIN heap) >= 3

\* C12: no remove deletes the root.  add([]) marks the root as a leaf and
\* remove([]) unmarks it; the pruning loop of every remove ends without
\* raising (it never reads an attribute of the root's parent None) and
\* leaves the root in place with its key, also when the trie becomes empty.
C12_RootKept ==
    /\ root \in DOMAIN heap
    /\ heap[root].parent = None
    /\ heap[root].key = log.heap0[root].key
    /\ log.exc = ""
    /\ (log.op = "add" /\ log.item = <<>>) => heap[root].isleaf
    /\ (log.op = "remove" /\ log.item = <<>> /\ log.ret) =>
          /\ log.heap0[root].isleaf
          /\ ~heap[root].isleaf
    /\ (log.op = "remove" /\ len = 0) => DOMAIN heap = {root}

\* The removal of a two-key item has emptied the trie down to the root.
C12_Witness ==
    /\ log.op = "remove" /\ log.ret /\ Len(log.item) = 2
    /\ len = 0 /\ DOMAIN heap = {root} /\ isempty(heap, root)

\* -------------------------------------------------------- Trie.__repr__
\* ' ' * i
RECURSIVE Spaces(_)
Spaces(i) == IF i <= 0 THEN "" ELSE " " \o Spaces(i - 1)

\* repr(key) of the keys of the model: the key None of the root of Trie(),
\* and strings
KeyRepr(key) == IF key = "None" THEN "None" ELSE "'" \o key \o "'"

\* id(x), written out: a name that tells the objects apart
IdStr(x) == IF x = None THEN "id(None)" ELSE "id(" \o join(x) \o ")"

\* _TrieNode.__str__: the key, followed by an asterisk if it is a leaf
NodeStr(h, n) == KeyRepr(h[n].key) \o (IF h[n].isleaf THEN "*" ELSE "")

\* _TrieNode.__repr__
NodeRepr(h, n) ==
    "_TrieNode" \o "(key=" \o KeyRepr(h[n].key)
        \o ", parent=" \o (IF h[n].parent = None THEN "NoneType" ELSE "_TrieNode")
        \o "@" \o IdStr(h[n].parent)
        \o ", isleaf=" \o (IF h[n].isleaf THEN "True" ELSE "False") \o ")"

\* _repr(node, i) of Trie.__repr__: the lines appended to s, and the heap
\* after the lookups node[key].
RECURSIVE reprNode(_, _, _, _)
RECURSIVE reprKeys(_, _, _, _, _, _)
reprNode(h, n, i, srt) ==
    reprKeys(h, n, applySorter(srt, keylist(h, n)), i, srt,
             <<Spaces(i) \o NodeRepr(h, n)>>)

reprKeys(h, n, keys, i, srt, acc) ==
    IF keys = <<>> THEN [heap |-> h, lines |-> acc]
    ELSE LET g == getitem(h, n, Head(keys))
             r == reprNode(g.heap, g.node, i + 2, srt)
         IN  reprKeys(r.heap, n, Tail(keys), i, srt, acc \o r.lines)

\* The list s of Trie.__repr__ after _repr(self.root, 2)
reprLines(h, r, srt) == reprNode(h, r, 2, srt).lines

\* '\n'.join(s)
RECURSIVE joinLines(_)
joinLines(s) ==
    IF s = <<>> THEN ""
    ELSE IF Len(s) = 1 THEN s[1]
         ELSE s[1] \o "\n" \o joinLines(Tail(s))

\* Trie.__repr__
TrieRepr(h, r, srt) ==
    "Trie" \o "@" \o "id(self)" \o "\n" \o joinLines(reprLines(h, r, srt))

\* The number of parent links from n up to the root.
Depth(h, n) == Len(hierarchyUp(h, n)) - 1

\* C13: the string form of a Trie has one line per node, the line of a node
\* being indented by its depth and showing the repr of the node's key
\* followed by '*' exactly when the node is a leaf.
C13_ReprShowsKeyAndMarker ==
    /\ Len(reprLines(heap, root, sorter)) = Cardinality(Nodes)
    /\ \A n \in Nodes :
          \E i \in 1..Len(reprLines(heap, root, sorter)) :
             reprLines(heap, root, sorter)[i]
                = Spaces(2 + 2 * Depth(heap, n)) \o NodeStr(heap, n)

\* ----------------------------------- the joiner of Trie.string_paths()
\* A string is the sequence of its characters.  The key lists the joiner is
\* called with start with the root key '' and go on with up to MaxSegs of
\* these segments.
MaxSegs == 2

PathSegs ==
    {<<"/">>, <<"/", "u">>, <<"/", "u", "/">>, <<"u">>, <<".">>,
     <<"\\">>, <<"C", ":", "\\">>, <<"C", ":", "\\", "u">>}

RECURSIVE SegLists(_)
SegLists(n) ==
    IF n = 0 THEN {<<>>}
    ELSE LET shorter == SegLists(n - 1)
         IN  shorter \cup {Append(s, g) : s \in shorter, g \in PathSegs}

\* The platforms: os.sep and os.path.isabs are those of posixpath or ntpath.
Platforms == {"posix", "nt"}

\* os.sep
sep(platform) == IF platform = "nt" THEN "\\" ELSE "/"

\* os.path.isabs.  posixpath: the path starts with '/'.  ntpath: the path
\* without its drive ("X:") starts with '\' or '/'.
isabs(platform, s) ==
    IF platform = "nt"
    THEN LET rest == IF Len(s) >= 2 /\ s[2] = ":" THEN SubSeq(s, 3, Len(s)) ELSE s
         IN  rest # <<>> /\ rest[1] \in {"\\", "/"}
    ELSE s # <<>> /\ s[1] = "/"

\* str.rstrip(c) for a single character c
RECURSIVE rstrip(_, _)
rstrip(s, c) ==
    IF s # <<>> /\ s[Len(s)] = c THEN rstrip(SubSeq(s, 1, Len(s) - 1), c) ELSE s

\* separator.join(strings)
RECURSIVE sepJoin(_, _)
sepJoin(c, strings) ==
    IF strings = <<>> THEN <<>>
    ELSE IF Len(strings) = 1 THEN strings[1]
         ELSE strings[1] \o <<c>> \o sepJoin(c, Tail(strings))

\* joiner(parts) of Trie.string_paths(); parts is node.hierarchy, the root
\* key first.  chain('.', parts) yields the one character of '.'.
pathJoiner(platform, parts) ==
    IF Len(parts) = 1 THEN <<sep(platform)>>
    ELSE LET first == parts[2]
             prefix == IF first = <<".">> THEN <<first>>
                       ELSE IF isabs(platform, first)
                            THEN <<rstrip(first, "\\")>>
                            ELSE <<parts[1], first>>
         IN  sepJoin(sep(platform), prefix \o SubSeq(parts, 3, Len(parts)))

\* An empty trie made by Trie.string_paths() stands by while its joiner is
\* called on a key list.
InitPath ==
    /\ InitStandby
    /\ cfg = NoCfg
    /\ hb = Heartbeat
    /\ mc = NoMc
    /\ \E platform \in Platforms, segs \in SegLists(MaxSegs) :
          path = [platform |-> platform, parts |-> <<<<>>>> \o segs,
                  pc |-> "start", out |-> <<>>]

\* out = joiner(node.hierarchy)
JoinPath ==
    /\ path.pc = "start"
    /\ path' = [path EXCEPT !.pc = "done",
                            !.out = pathJoiner(path.platform, path.parts)]
    /\ UNCHANGED <<trie, cfg, hb, mc>>

NextPath == JoinPath

\* The joiner of Trie.string_paths() called on a key list, on either
\* platform.
SpecPath == InitPath /\ [][NextPath]_vars

\* C14: a key list whose first segment after the root key is absolute, and
\* which has further segments, is joined as the first segment without its
\* trailing platform separators, followed by the remaining segments, a
\* platform separator before each: no doubled separator follows the first
\* segment.
C14_AbsoluteFirstStripped ==
    (path.pc = "done" /\ Len(path.parts) >= 3
                      /\ isabs(path.platform, path.parts[2])) =>
        path.out = sepJoin(sep(path.platform),
                           <<rstrip(path.parts[2], sep(path.platform))>>
                              \o SubSeq(path.parts, 3, Len(path.parts)))

\* ------------------------------------------ JSONConfiguration._update
\* A configuration is the mapping from the key lists of its entries to
\* their values: the dictionary of the JSONConfiguration holds the entries
\* with one key, and a value that is a Namespace holds the entries below it.
\* The other values are scalars.
CfgPaths == {<<"a">>, <<"b">>, <<"a", "a">>, <<"a", "b">>}

Scalar == [kind |-> "scalar", val |-> 1]

Nested == [kind |-> "Namespace", val |-> 0]

Front(p) == SubSeq(p, 1, Len(p) - 1)

\* The configurations loaded from a mapping; _reload takes the source only
\* when it is not empty ("if source").
Configs ==
    {f \in UNION {[D -> {Scalar, Nested}] : D \in (SUBSET CfgPaths) \ {{}}} :
        \A p \in DOMAIN f :
            Len(p) > 1 => Front(p) \in DOMAIN f /\ f[Front(p)].kind = "Namespace"}

\* The exclude arguments of _update: hashable keys, and lists of keys.
ExcludeArgs ==
    {[list |-> FALSE, key |-> k, keys |-> <<>>] : k \in Keys}
        \cup {[list |-> TRUE, key |-> "", keys |-> item] : item \in Items}

\* The number of exclude arguments of a call.
MaxExcl == 2

\* _make_trie: "if not isinstance(item, list): item = [item]"
AsList(x) == IF x.list THEN x.keys ELSE <<x.key>>

\* The mapping a Namespace is converted to, and the mapping a configuration
\* was loaded from: dict in the place of Namespace.
AsDict(f) ==
    [p \in DOMAIN f |-> IF f[p].kind = "Namespace"
                        THEN [kind |-> "dict", val |-> 0] ELSE f[p]]

\* The keys of the mapping at prefix: d.items()
KeysAt(f, prefix) ==
    {p \in DOMAIN f : Len(p) = Len(prefix) + 1 /\ Front(p) = prefix}

\* unplace as a bug would have it: the key alone is looked up in exclude,
\* without the keys of the enclosing namespaces.
RECURSIVE unplace_noPrefix(_, _, _, _)
unplace_noPrefix(f, h, r, prefix) ==
    UNION {IF contains(h, r, <<item[Len(item)]>>).ret THEN {}
           ELSE {item} \cup (IF f[item].kind = "Namespace"
                             THEN unplace_noPrefix(f, h, r, item) ELSE {})
           : item \in KeysAt(f, prefix)}

\* unplace(prefix, d) of _update: the key lists of the entries it yields,
\* at this level and in the nested dictionaries it builds.
RECURSIVE unplace(_, _, _, _)
unplace(f, h, r, prefix) ==
    UNION {IF contains(h, r, item).ret THEN {}
           ELSE {item} \cup (IF f[item].kind = "Namespace"
                             THEN unplace(f, h, r, item) ELSE {})
           : item \in KeysAt(f, prefix)}

\* The mappings _update is called with as destination: an empty one, and
\* one with an entry.
Destinations == {<<>>, [p \in {<<"z">>} |-> [kind |-> "scalar", val |-> 0]]}

\* The mappings _reload is called with after construction.
Sources ==
    {<<>>,
     [p \in {<<"b">>} |-> Scalar],
     [p \in {<<"a">>, <<"a", "a">>} |->
         IF p = <<"a">> THEN [kind |-> "dict", val |-> 0] ELSE Scalar]}

\* emplace of _reload: every nested mapping becomes a Namespace.
emplace(m) ==
    [p \in DOMAIN m |-> IF m[p].kind = "dict" THEN Nested ELSE m[p]]

\* _reload(source): a source that is not empty replaces _source; the
\* dictionary is cleared and loaded from _source.
reload(c, src) ==
    LET source == IF src # <<>> THEN src ELSE c.source
    IN  [c EXCEPT !.source = source, !.ns = emplace(source)]

\* The entries below the entry p.
Below(f, p) ==
    {q \in DOMAIN f : Len(q) > Len(p) /\ SubSeq(q, 1, Len(p)) = p}

\* Namespace.__setitem__ on the namespace that holds the entry p, and the
\* assignment of the attribute: what was below p goes with the old value.
nsSetitem(f, p, v) ==
    [q \in ((DOMAIN f) \ Below(f, p)) \cup {p} |-> IF q = p THEN v ELSE f[q]]

\* Namespace.__delitem__ on the namespace that holds the entry p
nsDelitem(f, p) ==
    IF p \in DOMAIN f
    THEN [ns |-> [q \in (DOMAIN f) \ (Below(f, p) \cup {p}) |-> f[q]],
          exc |-> ""]
    ELSE [ns |-> f, exc |-> "KeyError"]

\* Namespace.setdefault on the namespace that holds the entry p
nsSetdefault(f, p, v) == IF p \in DOMAIN f THEN f ELSE nsSetitem(f, p, v)

\* _check_path(*keys), from the key at i on: a key that is missing is made
\* an empty Namespace; a value that is no Namespace has no __dict__ to look
\* the next key up in.
RECURSIVE checkPath(_, _, _)
checkPath(f, keys, i) ==
    IF i > Len(keys) THEN [ns |-> f, exc |-> ""]
    ELSE LET obj  == SubSeq(keys, 1, i - 1)
             item == SubSeq(keys, 1, i)
         IN  IF obj # <<>> /\ f[obj].kind # "Namespace"
             THEN [ns |-> f, exc |-> "AttributeError"]
             ELSE IF item \in DOMAIN f THEN checkPath(f, keys, i + 1)
             ELSE checkPath(nsSetitem(f, item, Nested), keys, i + 1)

\* The calls made on a configuration besides those of _update.
MaxCalls == 2

\* The blocks of Namespace.override that are open at a time.
OvrIds == {1, 2}

\* A value a context holds: a value to put, a value it took out of the
\* dictionary with what a Namespace held (below, by the keys under it), or
\* the sentinel of the context, which stands for a key to delete.
Sentinel0 == [kind |-> "sentinel", val |-> 0, below |-> <<>>]

Value(v) == [kind |-> v.kind, val |-> v.val, below |-> <<>>]

\* override(**kwargs).delete(*keys): the updates of the context, in the
\* order of the dictionary, every key once; the keywords are numbers.
OvrSpecs ==
    {u \in UNION {[1..n -> Keys \X {Value(Scalar), Sentinel0}] :
                     n \in 1..Cardinality(Keys)} :
        \A i, j \in 1..Len(u) : i # j => u[i][1] # u[j][1]}

\* object_context.getfunc: getattr(self.mapping, key, self.sentinel)
objGetfunc(f, key) ==
    IF <<key>> \in DOMAIN f
    THEN [kind |-> f[<<key>>].kind, val |-> f[<<key>>].val,
          below |-> [q \in {SubSeq(p, 2, Len(p)) : p \in Below(f, <<key>>)} |->
                        f[<<key>> \o q]]]
    ELSE Sentinel0

\* object_context.setfunc: delattr for the sentinel, which raises for an
\* attribute that is not there, and setattr for another value.
objSetfunc(f, key, v) ==
    IF v.kind = "sentinel"
    THEN IF <<key>> \in DOMAIN f
         THEN [ns |-> nsDelitem(f, <<key>>).ns, exc |-> ""]
         ELSE [ns |-> f, exc |-> "AttributeError"]
    ELSE LET g == nsSetitem(f, <<key>>, [kind |-> v.kind, val |-> v.val])
         IN  [ns |-> [p \in DOMAIN g \cup {<<key>> \o q : q \in DOMAIN v.below} |->
                         IF p \in DOMAIN g THEN g[p]
                         ELSE v.below[SubSeq(p, 2, Len(p))]],
              exc |-> ""]

\* __enter__ of the context, from the update at i on: the value of the key
\* is taken into updates and the value of updates is put.
RECURSIVE ovrEnter(_, _, _)
ovrEnter(ups, f, i) ==
    IF i > Len(ups) THEN [updates |-> ups, ns |-> f, exc |-> ""]
    ELSE LET key  == ups[i][1]
             ups1 == [ups EXCEPT ![i] = <<key, objGetfunc(f, key)>>]
             r    == objSetfunc(f, key, ups[i][2])
         IN  IF r.exc # "" THEN [updates |-> ups1, ns |-> f, exc |-> r.exc]
             ELSE ovrEnter(ups1, r.ns, i + 1)

\* __exit__ of the context, from the update at i on
RECURSIVE ovrExit(_, _, _)
ovrExit(ups, f, i) ==
    IF i > Len(ups) THEN [ns |-> f, exc |-> ""]
    ELSE LET r == objSetfunc(f, ups[i][1], ups[i][2])
         IN  IF r.exc # "" THEN [ns |-> f, exc |-> r.exc]
             ELSE ovrExit(ups, r.ns, i + 1)

\* The Trie() _make_trie starts from.
NoExclude == [i \in {RootId} |-> TrieNode("None", None)]

\* JSONConfiguration(source) with a mapping as source.  pc is "ready"
\* between the calls, "make_trie" inside a call of _update and "done" when
\* _update returns; args, n, dest and written belong to the call of _update
\* and exc is the exception of the last call; open holds the updates of the
\* override contexts whose blocks are open and calls counts the calls
\* besides _update.  The exclude trie of _update is the trie of the model.
InitCfg ==
    /\ root = RootId
    /\ heap = NoExclude
    /\ len = 0
    /\ sorter = "identity"
    /\ joiner = "tuple"
    /\ S = {}
    /\ log = [op |-> "init", item |-> <<>>, ret |-> FALSE, exc |-> "",
               heap0 |-> NoExclude,
               len0 |-> 0, in0 |-> FALSE, afterAdd |-> FALSE, len00 |-> 0]
    /\ iters = [i \in ItIds |-> NoIter]
    /\ path = NoPath
    /\ hb = Heartbeat
    /\ mc = NoMc
    /\ \E f \in Configs :
          cfg = [pc |-> "ready", ns |-> emplace(AsDict(f)), source |-> AsDict(f),
                 args |-> {}, n |-> 0, dest |-> <<>>, written |-> "none",
                 exc |-> "", open |-> <<>>, calls |-> 0]

\* with cfg.override(**kwargs).delete(*keys): the block is entered, or
\* __enter__ raises and the block is not.
OverrideEnter(u) ==
    LET r == ovrEnter(u, cfg.ns, 1)
    IN  /\ cfg.pc = "ready"
        /\ cfg.calls < MaxCalls
        /\ Len(cfg.open) < Cardinality(OvrIds)
        /\ cfg' = [cfg EXCEPT !.ns = r.ns, !.exc = r.exc, !.calls = @ + 1,
                              !.open = IF r.exc = "" THEN Append(@, r.updates)
                                       ELSE @]
        /\ UNCHANGED <<trie, path, hb, mc>>

\* The innermost block of override is left: __exit__, and the context is
\* dropped.
OverrideExit ==
    LET r == ovrExit(cfg.open[Len(cfg.open)], cfg.ns, 1)
    IN  /\ cfg.pc = "ready"
        /\ cfg.open # <<>>
        /\ cfg' = [cfg EXCEPT !.ns = r.ns, !.exc = r.exc,
                              !.open = SubSeq(@, 1, Len(@) - 1)]
        /\ UNCHANGED <<trie, path, hb, mc>>

\* cfg._check_path(*keys)
CheckPathCall(keys) ==
    LET r == checkPath(cfg.ns, keys, 1)
    IN  /\ cfg.pc = "ready"
        /\ cfg.calls < MaxCalls
        /\ cfg' = [cfg EXCEPT !.ns = r.ns, !.exc = r.exc, !.calls = @ + 1]
        /\ UNCHANGED <<trie, path, hb, mc>>

\* cfg._reload(source), and cfg._reload() when src is empty
ReloadCall(src) ==
    /\ cfg.pc = "ready"
    /\ cfg.calls < MaxCalls
    /\ cfg' = [reload(cfg, src) EXCEPT !.exc = "", !.calls = @ + 1]
    /\ UNCHANGED <<trie, path, hb, mc>>

\* The namespace that holds the entry p is there.
Holder(p) ==
    Len(p) = 1 \/ (Front(p) \in DOMAIN cfg.ns /\ cfg.ns[Front(p)].kind = "Namespace")

\* ns[key] = v, or ns.key = v, on the configuration or a Namespace in it
SetItemCall(p, v) ==
    /\ cfg.pc = "ready"
    /\ cfg.calls < MaxCalls
    /\ Holder(p)
    /\ cfg' = [cfg EXCEPT !.ns = nsSetitem(@, p, v), !.exc = "", !.calls = @ + 1]
    /\ UNCHANGED <<trie, path, hb, mc>>

\* del ns[key]
DelItemCall(p) ==
    LET r == nsDelitem(cfg.ns, p)
    IN  /\ cfg.pc = "ready"
        /\ cfg.calls < MaxCalls
        /\ Holder(p)
        /\ cfg' = [cfg EXCEPT !.ns = r.ns, !.exc = r.exc, !.calls = @ + 1]
        /\ UNCHANGED <<trie, path, hb, mc>>

\* del ns.key: delattr raises AttributeError where del ns[key] raises
\* KeyError.
DelAttrCall(p) ==
    LET r == nsDelitem(cfg.ns, p)
    IN  /\ cfg.pc = "ready"
        /\ cfg.calls < MaxCalls
        /\ Holder(p)
        /\ cfg' = [cfg EXCEPT !.ns = r.ns, !.calls = @ + 1,
                              !.exc = IF r.exc = "" THEN "" ELSE "AttributeError"]
        /\ UNCHANGED <<trie, path, hb, mc>>

\* ns.setdefault(key, v)
SetDefaultCall(p, v) ==
    /\ cfg.pc = "ready"
    /\ cfg.calls < MaxCalls
    /\ Holder(p)
    /\ cfg' = [cfg EXCEPT !.ns = nsSetdefault(@, p, v), !.exc = "",
                          !.calls = @ + 1]
    /\ UNCHANGED <<trie, path, hb, mc>>

\* _make_trie, one turn of "for item in iterable": t.add(item).  The first
\* turn is the start of a call _update(d, *exclude).
MakeTrieAdd(x) ==
    LET r == add(heap, root, len, AsList(x))
    IN  /\ cfg.pc \in {"ready", "make_trie"}
        /\ cfg.n < MaxExcl
        /\ Cardinality(DOMAIN r.heap) <= MaxNodes
        /\ heap' = r.heap
        /\ len' = r.len
        /\ cfg' = [cfg EXCEPT !.pc = "make_trie", !.args = @ \cup {x},
                              !.n = @ + 1, !.exc = ""]
        /\ UNCHANGED <<root, sorter, joiner, S, log, iters, path, hb, mc>>

\* The rest of _update(d, *exclude): an empty d is replaced by _source; the
\* mapping is cleared and updated with what unplace yields.
Unplace(d) ==
    LET kept == unplace(cfg.ns, heap, root, <<>>)
        out  == [p \in kept |-> AsDict(cfg.ns)[p]]
    IN  /\ cfg.pc \in {"ready", "make_trie"}
        /\ cfg' = IF d = <<>>
                  THEN [cfg EXCEPT !.pc = "done", !.dest = d, !.exc = "",
                                   !.source = out, !.written = "source"]
                  ELSE [cfg EXCEPT !.pc = "done", !.dest = out, !.exc = "",
                                   !.written = "dest"]
        /\ UNCHANGED <<trie, path, hb, mc>>

\* _update has returned: its exclude trie, and the destination the caller
\* passed, are no longer looked at.
UpdateReturn ==
    /\ cfg.pc = "done"
    /\ cfg' = [cfg EXCEPT !.pc = "ready", !.args = {}, !.n = 0,
                          !.dest = <<>>, !.written = "none"]
    /\ heap' = NoExclude
    /\ len' = 0
    /\ UNCHANGED <<root, sorter, joiner, S, log, iters, path, hb, mc>>

MakeTrie == \E x \in ExcludeArgs : MakeTrieAdd(x)

Update == \E d \in Destinations : Unplace(d)

CheckPath == \E keys \in CfgPaths \cup {<<>>} : CheckPathCall(keys)

Reload == \E src \in Sources : ReloadCall(src)

SetItem == \E p \in CfgPaths, v \in {Scalar, Nested} : SetItemCall(p, v)

DelItem == \E p \in CfgPaths : DelItemCall(p)

SetDefault == \E p \in CfgPaths, v \in {Scalar, Nested} : SetDefaultCall(p, v)

DelAttr == \E p \in CfgPaths : DelAttrCall(p)

Override == \E u \in OvrSpecs : OverrideEnter(u)

NextCfg ==
    \/ MakeTrie
    \/ Update
    \/ UpdateReturn
    \/ CheckPath
    \/ Reload
    \/ SetItem
    \/ DelItem
    \/ DelAttr
    \/ SetDefault
    \/ Override
    \/ OverrideExit

\* A configuration that is changed, reloaded and written to mappings by
\* calls of _update.
SpecCfg == InitCfg /\ [][NextCfg]_vars

\* The mapping _update wrote to, and the key lists excluded by the call.
Written == IF cfg.written = "source" THEN cfg.source ELSE cfg.dest

ExcludedPaths == {AsList(x) : x \in cfg.args}

\* C15 as stated: an entry of the configuration is left out of the mapping
\* written exactly when its own key list is a leaf of the exclude trie.
C15_OmitsExactlyLeaves ==
    cfg.pc = "done" =>
        \A p \in DOMAIN cfg.ns :
            (p \notin DOMAIN Written) <=> contains(heap, root, p).ret

\* C15, amended: the leaves of the exclude trie are the key lists given, a
\* key that is not a list counting as a list of one; an entry is left out
\* exactly when its own key list or that of a namespace enclosing it is such
\* a leaf; an entry that is written has its value, a Namespace as a dict.
C15_OmitsLeavesAndBelow ==
    cfg.pc = "done" =>
        /\ \A q \in Items : contains(heap, root, q).ret <=> q \in ExcludedPaths
        /\ DOMAIN Written \subseteq DOMAIN cfg.ns
        /\ \A p \in DOMAIN cfg.ns :
              /\ (p \notin DOMAIN Written) <=>
                    \E i \in 1..Len(p) : contains(heap, root, SubSeq(p, 1, i)).ret
              /\ p \in DOMAIN Written => Written[p] = AsDict(cfg.ns)[p]
        /\ ExcludedPaths = {<<"a", "b">>} =>
              DOMAIN Written = DOMAIN cfg.ns \ {<<"a", "b">>}

\* ['a', 'b'] and the key 'b' were excluded from a configuration that has
\* a.a, a.b and b: a and a.a were written, a.b and b were not.
C15_Witness ==
    /\ cfg.pc = "done"
    /\ cfg.args = {[list |-> TRUE, key |-> "", keys |-> <<"a", "b">>],
                   [list |-> FALSE, key |-> "b", keys |-> <<>>]}
    /\ DOMAIN cfg.ns = CfgPaths
    /\ DOMAIN Written = {<<"a">>, <<"a", "a">>}

\* ------------------------------------------------------------ Heartbeat
\* The suspend() blocks the owner has open at a time.
MaxBlocks == 2

\* Heartbeat.start, its first statement: self.running = True
startSet(h) == [h EXCEPT !.running = TRUE]

\* Heartbeat.start, its second statement: Thread.start() makes the thread,
\* at the first statement of run, or raises RuntimeError for a thread that
\* was started before.
threadStart(h) ==
    IF h.pc = "new"
    THEN [h EXCEPT !.pc = "run", !.exc = ""]
    ELSE [h EXCEPT !.exc = "RuntimeError"]

\* Heartbeat.stop
stop(h) == [h EXCEPT !.running = FALSE]

\* suspend(), before the yield
suspendEnter(h) == [h EXCEPT !.suspended = TRUE]

\* suspend(), the else clause: the block ended without an exception
suspendElse(h) == [h EXCEPT !.suspended = FALSE]

\* suspend(), the except clause: the exception is raised again
suspendExcept(h) == [h EXCEPT !.running = FALSE]

\* A Heartbeat that has been constructed; nothing else is in use.
InitHb ==
    /\ InitStandby
    /\ path = NoPath
    /\ cfg = NoCfg
    /\ mc = NoMc
    /\ hb = Heartbeat

\* hb.start() is called, at any time: line 67
StartSet ==
    /\ hb.call = ""
    /\ hb' = [startSet(hb) EXCEPT !.call = "start"]
    /\ UNCHANGED <<trie, path, cfg, mc>>

\* hb.start(), line 68: the thread is made and start() waits for it to
\* begin, or RuntimeError is raised and the call ends.
StartThread ==
    /\ hb.call = "start"
    /\ hb' = IF hb.pc = "new"
             THEN [threadStart(hb) EXCEPT !.call = "wait", !.started = TRUE]
             ELSE [threadStart(hb) EXCEPT !.call = "", !.last = "start"]
    /\ UNCHANGED <<trie, path, cfg, mc>>

\* hb.start() returns: the thread has begun.
StartReturn ==
    /\ hb.call = "wait"
    /\ hb' = [hb EXCEPT !.call = "", !.last = "start"]
    /\ UNCHANGED <<trie, path, cfg, mc>>

\* hb.stop()
Stop ==
    /\ hb.call = ""
    /\ hb' = [stop(hb) EXCEPT !.stopped = hb.stopped \/ hb.started,
                              !.last = "stop", !.exc = ""]
    /\ UNCHANGED <<trie, path, cfg, mc>>

\* with hb.suspend(): the block is entered
SuspendEnter ==
    /\ hb.call = ""
    /\ hb.blocks < MaxBlocks
    /\ hb' = [suspendEnter(hb) EXCEPT !.blocks = @ + 1, !.last = "enter",
                                      !.exc = ""]
    /\ UNCHANGED <<trie, path, cfg, mc>>

\* The innermost suspend() block ends normally.
SuspendExit ==
    /\ hb.call = ""
    /\ hb.blocks > 0
    /\ hb' = [suspendElse(hb) EXCEPT !.blocks = @ - 1, !.last = "exit",
                                     !.exc = ""]
    /\ UNCHANGED <<trie, path, cfg, mc>>

\* An exception leaves the innermost suspend() block.
SuspendRaise ==
    /\ hb.call = ""
    /\ hb.blocks > 0
    /\ hb' = [suspendExcept(hb) EXCEPT !.blocks = @ - 1, !.last = "raise",
                                       !.exc = "Exception",
                                       !.failed = hb.failed \/ hb.started]
    /\ UNCHANGED <<trie, path, cfg, mc>>

\* run: self.emit(), the first statement
RunEmitFirst ==
    /\ hb.pc = "run"
    /\ hb' = [hb EXCEPT !.pc = "while", !.late = hb.late \/ hb.stopped]
    /\ UNCHANGED <<trie, path, cfg, mc>>

\* run: while self.running
RunWhile ==
    /\ hb.pc = "while"
    /\ hb' = [hb EXCEPT !.pc = IF hb.running THEN "sleep" ELSE "dead"]
    /\ UNCHANGED <<trie, path, cfg, mc>>

\* run: sleep(self.interval) returns
RunSleep ==
    /\ hb.pc = "sleep"
    /\ hb' = [hb EXCEPT !.pc = "if"]
    /\ UNCHANGED <<trie, path, cfg, mc>>

\* run: if not self.suspended ...
RunIfSuspended ==
    /\ hb.pc = "if"
    /\ hb' = [hb EXCEPT !.pc = IF hb.suspended THEN "while" ELSE "and"]
    /\ UNCHANGED <<trie, path, cfg, mc>>

\* run: ... and self.running
RunIfRunning ==
    /\ hb.pc = "and"
    /\ hb' = [hb EXCEPT !.pc = IF hb.running THEN "emit" ELSE "while"]
    /\ UNCHANGED <<trie, path, cfg, mc>>

\* run: self.emit(), in the loop
RunEmit ==
    /\ hb.pc = "emit"
    /\ hb' = [hb EXCEPT !.pc = "while", !.late = hb.late \/ hb.stopped]
    /\ UNCHANGED <<trie, path, cfg, mc>>

\* A step of the thread.
Run ==
    \/ RunEmitFirst
    \/ RunWhile
    \/ RunSleep
    \/ RunIfSuspended
    \/ RunIfRunning
    \/ RunEmit

NextHb ==
    \/ StartSet
    \/ StartThread
    \/ StartReturn
    \/ Stop
    \/ SuspendEnter
    \/ SuspendExit
    \/ SuspendRaise
    \/ Run

\* The steps of the one owner, a call at a time, and the steps of the
\* thread, in any order.
SpecHb == InitHb /\ [][NextHb]_vars

\* The same, with a thread that is scheduled again and again and an owner
\* that is not held inside start() for ever.
SpecHbFair ==
    /\ InitHb /\ [][NextHb]_vars
    /\ WF_vars(Run)
    /\ WF_vars(StartThread)
    /\ WF_vars(StartReturn)

\* C16: once stop() has been called on a started Heartbeat, its thread does
\* not start another call of emit.
C16_NoEmitAfterStop == ~hb.late

\* C17: after stop() is called on a started Heartbeat, and after an
\* exception has left a suspend() block of one, the thread comes to its end;
\* a suspend() block that ends normally leaves running as it is and clears
\* suspended.
C17_ThreadDies ==
    /\ (hb.started /\ (hb.stopped \/ hb.failed)) ~> (hb.pc = "dead")
    /\ [][(hb'.last = "exit" /\ hb'.blocks < hb.blocks) =>
             (hb'.running = hb.running /\ ~hb'.suspended)]_vars

\* ------------------------------------------------------ mapping_context
\* The keys and the contents of the mapping the contexts are made for: the
\* third key is not in it.
MKeys == {"a", "b", "c"}

Mapping0 == [k \in {"a", "b"} |-> 1]

\* The number of keys a context is made with.
MaxUpd == 2

\* The contexts: the first is used any number of times, the second inside
\* the with block of the first.
CtxIds == {1, 2}

\* self.sentinel = object() in __init__: a value of its own for each
\* context made by mapping_context(...), which the mapping never holds
Sentinel(c) == 0 - c

\* The value the keyword arguments of context c give to a key.
NewValue(c) == 1 + c

\* The ways to make a context: the keyword arguments of mapping_context(d,
\* **kwargs) and the keys of .delete(*keys), in the order in which updates
\* receives them; "set" stands for a keyword argument, "del" for a key of
\* delete.
RECURSIVE UpdSpecs(_)
UpdSpecs(n) ==
    IF n = 0 THEN {<<>>}
    ELSE LET shorter == UpdSpecs(n - 1)
         IN  shorter \cup
             {Append(s, <<k, how>>) :
                 s \in {t \in shorter : Len(t) = n - 1},
                 k \in MKeys, how \in {"set", "del"}}

DistinctKeys(s) == \A i, j \in 1..Len(s) : s[i][1] = s[j][1] => i = j

\* _init followed by delete, for context c with the sentinel snt: the
\* dictionary updates, in insertion order
updatesOf(c, snt, s) ==
    [i \in 1..Len(s) |->
        <<s[i][1], IF s[i][2] = "set" THEN NewValue(c) ELSE snt>>]

\* dict[key] = value: a key that is there keeps its place
DictSet(ups, key, value) ==
    IF \E i \in 1..Len(ups) : ups[i][1] = key
    THEN [i \in 1..Len(ups) |-> IF ups[i][1] = key THEN <<key, value>> ELSE ups[i]]
    ELSE Append(ups, <<key, value>>)

\* mapping_context.delete(key) on a context with the sentinel snt
delete(ups, snt, key) == DictSet(ups, key, snt)

\* mapping_context.getfunc: self.mapping.get(key, self.sentinel)
getfunc(snt, d, key) == IF key \in DOMAIN d THEN d[key] ELSE snt

\* mapping_context.setfunc: the mapping after the call, and the exception
\* "del self.mapping[key]" raises for a key that is not there.
setfunc(snt, d, key, value) ==
    IF value = snt
    THEN IF key \in DOMAIN d
         THEN [d |-> [k \in DOMAIN d \ {key} |-> d[k]], exc |-> ""]
         ELSE [d |-> d, exc |-> "KeyError"]
    ELSE [d |-> [k \in DOMAIN d \cup {key} |-> IF k = key THEN value ELSE d[k]],
          exc |-> ""]

\* mapping_context.__enter__, from the i-th item of updates on: updates and
\* the mapping after it, and the exception that ended it.
RECURSIVE enter(_, _, _, _)
enter(snt, ups, d, i) ==
    IF i > Len(ups) THEN [updates |-> ups, d |-> d, exc |-> ""]
    ELSE LET key   == ups[i][1]
             ups1  == [ups EXCEPT ![i] = <<key, getfunc(snt, d, key)>>]
             s     == setfunc(snt, d, key, ups[i][2])
         IN  IF s.exc # "" THEN [updates |-> ups1, d |-> d, exc |-> s.exc]
             ELSE enter(snt, ups1, s.d, i + 1)

\* mapping_context.__exit__, from the i-th item of updates on
RECURSIVE exit(_, _, _, _)
exit(snt, ups, d, i) ==
    IF i > Len(ups) THEN [d |-> d, exc |-> ""]
    ELSE LET s == setfunc(snt, d, ups[i][1], ups[i][2])
         IN  IF s.exc # "" THEN [d |-> d, exc |-> s.exc]
             ELSE exit(snt, ups, s.d, i + 1)

\* A context that has not been made.  made: it exists; updates and
\* sentinel: its attributes; beside the program: how (the way it was made:
\* the keyword arguments and the keys of delete), used (it has been
\* entered and exited) and touched (delete was called on it inside its own
\* with block).
NoCtx ==
    [made |-> FALSE, updates |-> <<>>, sentinel |-> 0, how |-> <<>>,
     used |-> FALSE, touched |-> FALSE]

\* d: the mapping; ctx: the contexts; open: the with blocks that are open,
\* outermost first, each with the mapping as it was before the block was
\* entered; last: the last call, the exception it raised, whether its
\* context had been used before, and for __enter__ and __exit__ the mapping
\* as it was before the context was entered.
InitMc ==
    /\ InitStandby
    /\ path = NoPath
    /\ cfg = NoCfg
    /\ hb = Heartbeat
    /\ mc = [pc |-> "run", d |-> Mapping0, ctx |-> [c \in CtxIds |-> NoCtx],
             open |-> <<>>,
             last |-> [op |-> "init", c |-> 0, exc |-> "", again |-> FALSE,
                       before |-> Mapping0]]

\* ctx = mapping_context(d, **kwargs).delete(*keys)
MakeCall(c, s) ==
    /\ ~mc.ctx[c].made
    /\ c = 2 => Len(mc.open) = 1
    /\ mc' = [mc EXCEPT
                !.ctx[c] = [made |-> TRUE,
                            updates |-> updatesOf(c, Sentinel(c), s),
                            sentinel |-> Sentinel(c),
                            how |-> s, used |-> FALSE, touched |-> FALSE],
                !.last = [op |-> "make", c |-> c, exc |-> "", again |-> FALSE,
                          before |-> mc.d]]
    /\ UNCHANGED <<trie, path, cfg, hb>>

\* ctx2 = ctx1.chain(**kwargs).delete(*keys), in the with block of ctx1:
\* the new context has the sentinel of ctx1.
ChainCall(s) ==
    /\ mc.ctx[1].made
    /\ ~mc.ctx[2].made
    /\ Len(mc.open) = 1
    /\ mc' = [mc EXCEPT
                !.ctx[2] = [made |-> TRUE,
                            updates |-> updatesOf(2, mc.ctx[1].sentinel, s),
                            sentinel |-> mc.ctx[1].sentinel,
                            how |-> s, used |-> FALSE, touched |-> FALSE],
                !.last = [op |-> "chain", c |-> 2, exc |-> "", again |-> FALSE,
                          before |-> mc.d]]
    /\ UNCHANGED <<trie, path, cfg, hb>>

\* ctx.delete(key) on a context that exists, entered or not; updates holds
\* MaxUpd keys at most.
DeleteCall(c, key) ==
    /\ mc.ctx[c].made
    /\ Len(delete(mc.ctx[c].updates, mc.ctx[c].sentinel, key)) <= MaxUpd
    /\ mc' = [mc EXCEPT
                !.ctx[c].updates = delete(@, mc.ctx[c].sentinel, key),
                !.ctx[c].how = DictSet(@, key, "del"),
                !.ctx[c].touched = @ \/ \E i \in 1..Len(mc.open) : mc.open[i].c = c,
                !.last = [op |-> "delete", c |-> c, exc |-> "",
                          again |-> FALSE, before |-> Mapping0]]
    /\ UNCHANGED <<trie, path, cfg, hb>>

\* with ctx: __enter__ is called; the block is entered unless it raises
EnterCall(c) ==
    LET r == enter(mc.ctx[c].sentinel, mc.ctx[c].updates, mc.d, 1)
    IN  /\ mc.ctx[c].made
        /\ \A i \in 1..Len(mc.open) : mc.open[i].c # c
        /\ c = 1 => mc.open = <<>>
        /\ mc' = [mc EXCEPT
                    !.d = r.d,
                    !.ctx[c].updates = r.updates,
                    !.ctx[c].touched = FALSE,
                    !.open = IF r.exc = ""
                             THEN Append(@, [c |-> c, before |-> mc.d])
                             ELSE @,
                    !.last = [op |-> "enter", c |-> c, exc |-> r.exc,
                              again |-> mc.ctx[c].used, before |-> mc.d]]
        /\ UNCHANGED <<trie, path, cfg, hb>>

\* The innermost with block is left: __exit__ is called.  The second
\* context is dropped with the block of the first.
ExitCall(c) ==
    LET top == mc.open[Len(mc.open)]
        r   == exit(mc.ctx[c].sentinel, mc.ctx[c].updates, mc.d, 1)
    IN  /\ mc.open # <<>>
        /\ top.c = c
        /\ mc' = [mc EXCEPT
                    !.d = r.d,
                    !.ctx = [i \in CtxIds |->
                               IF i = c THEN [mc.ctx[c] EXCEPT !.used = TRUE]
                               ELSE IF c = 1 THEN NoCtx ELSE mc.ctx[i]],
                    !.open = SubSeq(@, 1, Len(@) - 1),
                    !.last = [op |-> "exit", c |-> c, exc |-> r.exc,
                              again |-> mc.ctx[c].used, before |-> top.before]]
        /\ UNCHANGED <<trie, path, cfg, hb>>

MakeCtx ==
    \E c \in CtxIds, s \in {t \in UpdSpecs(MaxUpd) : DistinctKeys(t)} :
        MakeCall(c, s)

ChainCtx == \E s \in {t \in UpdSpecs(MaxUpd) : DistinctKeys(t)} : ChainCall(s)

DeleteCtx == \E c \in CtxIds, key \in MKeys : DeleteCall(c, key)

EnterCtx == \E c \in CtxIds : EnterCall(c)

ExitCtx == \E c \in CtxIds : ExitCall(c)

NextMc == MakeCtx \/ ChainCtx \/ DeleteCtx \/ EnterCtx \/ ExitCtx

\* Contexts made for one mapping, entered and exited as with blocks are.
SpecMc == InitMc /\ [][NextMc]_vars

\* The keys of a dictionary updates, and a mapping cut down to a set of keys.
KeysOf(ups) == {ups[i][1] : i \in 1..Len(ups)}

Restrict(d, K) == [k \in K \cap DOMAIN d |-> d[k]]

\* C18: when a context exits that was not changed inside its with block,
\* __exit__ raises nothing and every key of the context has the value, or
\* the absence, it had before the context was entered, also when contexts
\* are nested.
C18_ExitRestores ==
    (mc.last.op = "exit" /\ ~mc.ctx[mc.last.c].touched) =>
        /\ mc.last.exc = ""
        /\ Restrict(mc.d, KeysOf(mc.ctx[mc.last.c].updates))
             = Restrict(mc.last.before, KeysOf(mc.ctx[mc.last.c].updates))

\* The keys a context was made to delete that were not in the mapping d.
MissingDeletes(c, d) ==
    {k \in MKeys \ DOMAIN d : <<k, "del">> \in Range(mc.ctx[c].how)}

\* C19: a context made to delete a key that is not in the mapping is
\* entered without an exception, and the key is still absent.
C19_DeleteMissingIgnored ==
    (mc.last.op = "enter" /\ ~mc.last.again
        /\ MissingDeletes(mc.last.c, mc.last.before) # {}) =>
        /\ mc.last.exc = ""
        /\ MissingDeletes(mc.last.c, mc.last.before) \cap DOMAIN mc.d = {}

\* C20: a context that was entered and exited before, made with keyword
\* arguments only, is entered again without an exception and its keys then
\* have the values of the keyword arguments, as after the first entry;
\* its exit raises nothing and restores what those keys had before.
C20_Reentrant ==
    (mc.last.op \in {"enter", "exit"} /\ mc.last.again
        /\ \A i \in 1..Len(mc.ctx[mc.last.c].how) :
              mc.ctx[mc.last.c].how[i][2] = "set") =>
        /\ mc.last.exc = ""
        /\ mc.last.op = "enter" =>
              \A k \in KeysOf(mc.ctx[mc.last.c].how) :
                  k \in DOMAIN mc.d /\ mc.d[k] = NewValue(mc.last.c)
        /\ mc.last.op = "exit" =>
              Restrict(mc.d, KeysOf(mc.ctx[mc.last.c].how))
                 = Restrict(mc.last.before, KeysOf(mc.ctx[mc.last.c].how))

\* ----------------------------------------------------- what remove deletes
\* The chain remove deletes, found on the heap h the call started from: from
\* node m upward, the nodes that are not the root, are not leaves (final is
\* the node the call unmarks) and have no child other than the node below
\* them on the chain (below; None at the final node).
RECURSIVE PruneChain(_, _, _, _)
PruneChain(h, m, below, final) ==
    IF \/ h[m].parent = None
       \/ (m # final /\ h[m].isleaf)
       \/ Children(h, m) \ {below} # {}
    THEN {}
    ELSE {m} \cup PruneChain(h, h[m].parent, m, final)

\* C21: a successful remove(s) deletes exactly the maximal upward chain from
\* the final node of s of nodes that, once the final node is unmarked, are
\* not the root, not leaves and have no child outside the chain; every other
\* node stays, with its key, parent and leaf flag (the final node unmarked)
\* and with its children outside the chain.
C21_RemoveDeletesChain ==
    log.op = "remove" /\ log.ret =>
        LET h0    == log.heap0
            final == findWalk(h0, root, log.item).node
            chain == PruneChain(h0, final, None, final)
        IN  /\ DOMAIN heap = DOMAIN h0 \ chain
            /\ \A m \in DOMAIN heap :
                   /\ heap[m].key = h0[m].key
                   /\ heap[m].parent = h0[m].parent
                   /\ heap[m].isleaf = (h0[m].isleaf /\ m # final)
                   /\ Children(heap, m) = Children(h0, m) \ chain
                   /\ keylist(heap, m) =
                        SelectSeq(keylist(h0, m),
                                  LAMBDA k : DictGet(h0[m].suffixes.d, k) \notin chain)

\* A remove has deleted a chain of two nodes below a node that stays because
\* it has another child.
C21_Witness ==
    /\ log.op = "remove" /\ log.ret
    /\ Cardinality(DOMAIN log.heap0 \ DOMAIN heap) = 2
    /\ Cardinality(DOMAIN heap) >= 2

\* ------------------------------------------------- the order of iteration
\* The root-to-leaf key list, without the key of the root, of the leaf whose
\* value v generator it has yielded.
ItemOf(it, v) ==
    Tail(CHOOSE p \in {q[1] : q \in PathsFrom(it.heap0, root, <<>>)} :
             applyJoiner(JoinerOf(it), p) = v)

\* The place of key k in the list ks; 0 when it is not there.
IndexOf(ks, k) ==
    IF \E j \in 1..Len(ks) : ks[j] = k
    THEN CHOOSE j \in 1..Len(ks) : ks[j] = k /\ \A l \in 1..(j - 1) : ks[l] # k
    ELSE 0

\* The first place where the key lists s and t differ, neither being a
\* prefix of the other.
FirstDiff(s, t) ==
    CHOOSE d \in 1..Len(s) : s[d] # t[d] /\ SubSeq(s, 1, d - 1) = SubSeq(t, 1, d - 1)

\* s < t for strings made of the one-character keys of s and of t.
LexLess(s, t) ==
    \/ (IsPrefix(s, t) /\ s # t)
    \/ /\ ~IsPrefix(s, t) /\ ~IsPrefix(t, s)
       /\ KeyOrd(s[FirstDiff(s, t)]) < KeyOrd(t[FirstDiff(s, t)])

\* s comes before t where they part: the key of s at the node where the two
\* lists part stands before the key of t in what the sorter returns for the
\* keys of that node.
SiblingsInOrder(it, s, t) ==
    LET d  == FirstDiff(s, t)
        n  == findWalk(it.heap0, root, SubSeq(s, 1, d - 1)).node
        ks == applySorter(SorterOf(it), keylist(it.heap0, n))
    IN  IndexOf(ks, s[d]) < IndexOf(ks, t[d])

\* C22: of two values a depth-first iteration yields, the later one is not
\* of a prefix of the earlier one's key sequence; where the two sequences
\* part, the earlier one takes the child the sorter puts first; and a
\* Trie.strings() trie yields its strings in ascending lexicographic order.
C22_DfsOrder ==
    \A i \in ItIds :
        iters[i].status \in {"suspended", "done"} /\ iters[i].dfs =>
            \A a, b \in 1..Len(iters[i].out) :
                a < b =>
                    LET s == ItemOf(iters[i], iters[i].out[a])
                        t == ItemOf(iters[i], iters[i].out[b])
                    IN  /\ ~IsPrefix(t, s)
                        /\ ~IsPrefix(s, t) => SiblingsInOrder(iters[i], s, t)
                        /\ (SorterOf(iters[i]) = "sorted"
                            /\ JoinerOf(iters[i]) = "join") => LexLess(s, t)

\* A depth-first iteration of a Trie.strings() trie has ended after three
\* strings, one a prefix of another, the keys of the root having been added
\* in descending order.
C22_Witness ==
    /\ iters[1].status = "done" /\ iters[1].dfs
    /\ SorterOf(iters[1]) = "sorted" /\ JoinerOf(iters[1]) = "join"
    /\ Len(iters[1].out) = 3
    /\ keylist(iters[1].heap0, root) = <<"b", "a">>
    /\ \E a, b \in 1..3 : /\ a < b
                          /\ IsPrefix(ItemOf(iters[1], iters[1].out[a]),
                                      ItemOf(iters[1], iters[1].out[b]))

\* C23: of two values a breadth-first iteration yields, the later one's key
\* sequence is not the shorter one; and of two sequences of the same length
\* the earlier one takes, where they part, the child the sorter puts first.
C23_BfsOrder ==
    \A i \in ItIds :
        iters[i].status \in {"suspended", "done"} /\ ~iters[i].dfs =>
            \A a, b \in 1..Len(iters[i].out) :
                a < b =>
                    LET s == ItemOf(iters[i], iters[i].out[a])
                        t == ItemOf(iters[i], iters[i].out[b])
                    IN  /\ Len(s) <= Len(t)
                        /\ Len(s) = Len(t) => SiblingsInOrder(iters[i], s, t)

\* A breadth-first iteration has ended after three values: two sequences of
\* one key, then a sequence of two keys that extends the first.
C23_Witness ==
    /\ iters[1].status = "done" /\ ~iters[1].dfs
    /\ Len(iters[1].out) = 3
    /\ Len(ItemOf(iters[1], iters[1].out[2])) = 1
    /\ Len(ItemOf(iters[1], iters[1].out[3])) = 2
    /\ IsPrefix(ItemOf(iters[1], iters[1].out[1]), ItemOf(iters[1], iters[1].out[3]))

\* The values a generator can still yield, and one more for the pull that
\* ends it; the trie held len0 sequences when iter was called.
Remaining(it) ==
    (it.len0 - Len(it.out)) + (IF it.status = "done" THEN 0 ELSE 1)

\* C24: a full iteration ends, every pull bringing the generator nearer to
\* its end (it yields one of the at most len(trie) values or it ends); with
\* a sorter that returns a permutation of its input the values, in either
\* mode, are the joined key lists of the leaves, each once, and there are
\* len(trie) of them.
C24_FullIteration ==
    /\ [](\A i \in ItIds :
            /\ iters[i].status \in {"created", "suspended", "done"} =>
                   Remaining(iters[i]) >= 0
            /\ iters[i].status = "done" /\ ReturnsPermutation(SorterOf(iters[i])) =>
                   /\ Len(iters[i].out) = TrieLen(len)
                   /\ \A a, b \in 1..Len(iters[i].out) :
                          a # b => iters[i].out[a] # iters[i].out[b]
                   /\ Range(iters[i].out) =
                          {applyJoiner(JoinerOf(iters[i]), p) : p \in LeafPaths})
    /\ [][\A i \in ItIds :
            Started(iters[i]) /\ iters'[i] # iters[i] /\ iters'[i].status # "none" =>
                Remaining(iters'[i]) < Remaining(iters[i])]_vars

\* A depth-first and a breadth-first iteration of a trie of three sequences
\* have both ended.
C24_Witness ==
    /\ iters[1].status = "done" /\ iters[2].status = "done"
    /\ iters[1].dfs /\ ~iters[2].dfs
    /\ ReturnsPermutation(SorterOf(iters[1]))
    /\ TrieLen(len) = 3
    /\ Cardinality(Nodes \ Leaves) >= 1

\* ------------------------------------------- what the joiner is called with
\* C25: every value an iteration yields is the joiner's value for the key of
\* the root followed by the keys of a contained sequence s in their order;
\* with the tuple joiner it has len(s) + 1 elements and begins with the key
\* of the root.  A full iteration with a sorter that returns a permutation
\* of its input yields such a value for every contained sequence.
C25_JoinerGetsRootThenKeys ==
    \A i \in ItIds :
        LET it == iters[i]
            J  == JoinerOf(it)
        IN  /\ it.status \in {"suspended", "done"} =>
                \A a \in 1..Len(it.out) :
                    \E s \in S :
                        /\ it.out[a] = applyJoiner(J, <<heap[root].key>> \o s)
                        /\ J = "tuple" =>
                               /\ Len(it.out[a]) = Len(s) + 1
                               /\ it.out[a][1] = heap[root].key
                               /\ Tail(it.out[a]) = s
            /\ it.status = "done" /\ ReturnsPermutation(SorterOf(it)) =>
                \A s \in S :
                    \E a \in 1..Len(it.out) :
                        it.out[a] = applyJoiner(J, <<heap[root].key>> \o s)

\* An iteration with the tuple joiner has yielded the tuple of the root key
\* and the keys a, b for the contained sequence [a, b].
C25_Witness ==
    \E i \in ItIds :
        /\ iters[i].status \in {"suspended", "done"}
        /\ JoinerOf(iters[i]) = "tuple"
        /\ <<"a", "b">> \in S
        /\ \E a \in 1..Len(iters[i].out) : iters[i].out[a] = <<"None", "a", "b">>

\* ---------------------------------------------------- Trie.__init__ again
\* The object Trie.__new__ returns: none of its slots is set.  hasroot is
\* hasattr(self, 'root').
Blank ==
    [hasroot |-> FALSE, heap |-> <<>>, root |-> None, len |-> 0,
     sorter |-> "", joiner |-> ""]

\* The trie as such an object.
Self ==
    [hasroot |-> TRUE, heap |-> heap, root |-> root, len |-> len,
     sorter |-> sorter, joiner |-> joiner]

\* The arguments of __init__; "" stands for None as sorter and as joiner.
EmptyArgs == {"None", ""}

InitSorterArgs == {"", "sorted"}

InitJoinerArgs == {"", "join"}

\* __init__ as a bug would have it: without "if not hasattr(self, 'root')".
TrieInit_noGuard(self, empty, srt, jnr) ==
    [hasroot |-> TRUE,
     heap    |-> [i \in {RootId} |-> TrieNode(empty, None)],
     root    |-> RootId,
     len     |-> 0,
     sorter  |-> IF srt = "" THEN "identity" ELSE srt,
     joiner  |-> IF jnr = "" THEN "tuple" ELSE jnr]

\* Trie.__init__(self, empty, sorter, joiner)
TrieInit(self, empty, srt, jnr) ==
    IF ~self.hasroot
    THEN [hasroot |-> TRUE,
          heap    |-> [i \in {RootId} |-> TrieNode(empty, None)],
          root    |-> RootId,
          len     |-> 0,
          sorter  |-> IF srt = "" THEN "identity" ELSE srt,
          joiner  |-> IF jnr = "" THEN "tuple" ELSE jnr]
    ELSE self

\* The arguments of the first __init__: those of Trie() and those of
\* Trie.strings().
NewArgs == {<<"None", "", "">>, <<"", "sorted", "join">>}

\* Trie(empty, sorter, joiner): __new__ and then __init__.
InitNew ==
    \E args \in NewArgs :
        LET empty == args[1]
            srt   == args[2]
            jnr   == args[3]
            t     == TrieInit(Blank, empty, srt, jnr)
        IN  /\ path = NoPath
            /\ cfg = NoCfg
            /\ hb = Heartbeat
            /\ mc = NoMc
            /\ root = t.root
            /\ heap = t.heap
            /\ len = t.len
            /\ sorter = t.sorter
            /\ joiner = t.joiner
            /\ S = {}
            /\ log = [op |-> "new", item |-> <<empty, srt, jnr>>, ret |-> FALSE,
                      exc |-> "", heap0 |-> <<>>, len0 |-> 0, in0 |-> FALSE,
                      afterAdd |-> FALSE, len00 |-> 0]
            /\ iters = [i \in ItIds |-> NoIter]

\* trie.__init__(empty, sorter, joiner) on the trie; the log keeps the
\* arguments as its item.
InitCall(empty, srt, jnr) ==
    LET t == TrieInit(Self, empty, srt, jnr)
    IN  /\ root' = t.root
        /\ heap' = Collect(t.heap, {t.root})
        /\ len' = t.len
        /\ sorter' = t.sorter
        /\ joiner' = t.joiner
        /\ log' = [op |-> "init", item |-> <<empty, srt, jnr>>, ret |-> FALSE,
                   exc |-> "", heap0 |-> <<>>, len0 |-> 0, in0 |-> FALSE,
                   afterAdd |-> FALSE, len00 |-> 0]
        /\ UNCHANGED <<S, iters, others>>

InitAgain ==
    \E empty \in EmptyArgs, srt \in InitSorterArgs, jnr \in InitJoinerArgs :
        InitCall(empty, srt, jnr)

\* trie.add(item) or trie.remove(item); the log keeps the last __init__.
Change ==
    /\ \E item \in Items : AddStep(item) \/ RemoveStep(item)
    /\ UNCHANGED log

NextInit == Change \/ InitAgain

\* Tries made with any arguments, changed by add and remove, on which
\* __init__ is called again at any time with any arguments.
SpecInit == InitNew /\ [][NextInit]_vars

\* C26: a call of __init__ on a trie that is initialised, whatever its
\* arguments, leaves the root, the nodes with their keys, parents, leaf
\* flags and children, len, the sorter and the joiner as they were.
C26_InitAgainKeeps ==
    [][InitAgain =>
          /\ root' = root
          /\ heap' = heap
          /\ len' = len
          /\ sorter' = sorter
          /\ joiner' = joiner]_vars

\* __init__ has been called again, with a root key, a sorter and a joiner
\* that are not the trie's, on a trie of two sequences.
C26_Witness ==
    /\ log.op = "init"
    /\ log.item[1] # heap[root].key
    /\ log.item[2] # sorter
    /\ log.item[3] # joiner
    /\ TrieLen(len) = 2
    /\ Cardinality(Nodes) = 4

\* ------------------------------------------------- the nodes are prefixes
\* The key lists, without the key of the root, from the root to the nodes.
NodePaths == {Tail(q[1]) : q \in PathsFrom(heap, root, <<>>)}

\* The prefixes of the sequences of the set T, the empty one among them.
Prefixes(T) ==
    {<<>>} \cup UNION {{SubSeq(s, 1, k) : k \in 0..Len(s)} : s \in T}

\* C27: after any sequence of add and remove calls the key paths from the
\* root to the nodes are the prefixes of the contained sequences, the empty
\* prefix (the root) among them, one node to a prefix: no node stands for a
\* sequence that is not such a prefix, and there is a node for every prefix.
C27_NodesArePrefixes ==
    /\ NodePaths = Prefixes({s \in Items : contains(heap, root, s).ret})
    /\ NodePaths = Prefixes(S)
    /\ Cardinality(Nodes) = Cardinality(NodePaths)
    /\ DOMAIN heap = Nodes

\* A remove has deleted a node and left two sequences, one a prefix of the
\* other, and with them two nodes below the root.
C27_Witness ==
    /\ log.op = "remove" /\ log.ret
    /\ Cardinality(DOMAIN log.heap0) > Cardinality(DOMAIN heap)
    /\ Cardinality(S) = 2
    /\ Cardinality(NodePaths) = 3

\* ------------------------------------------------------- unhashable keys
\* A key that cannot be hashed, such as a list: "key in self.suffixes" and
\* "self.suffixes[key]" raise TypeError for it.
Unhashable == "[]"

hashable(k) == k # Unhashable

\* The items with an unhashable key at some position.
RECURSIVE SeqsOver(_, _)
SeqsOver(K, n) ==
    IF n = 0 THEN {<<>>}
    ELSE LET shorter == SeqsOver(K, n - 1)
         IN  shorter \cup {Append(s, k) : s \in shorter, k \in K}

BadItems ==
    {s \in SeqsOver(Keys \cup {Unhashable}, MaxLen) :
        \E j \in 1..Len(s) : ~hashable(s[j])}

\* The place of the first unhashable key of the item.
FirstBad(item) ==
    CHOOSE j \in 1..Len(item) :
        ~hashable(item[j]) /\ \A l \in 1..(j - 1) : hashable(item[l])

\* _TrieNode.__getitem__ with an unhashable key: "self.suffixes = {}" is
\* done when the node is empty, and then "key not in self.suffixes" raises
\* TypeError.  The heap it leaves.
getitemRaises(h, n) ==
    IF isempty(h, n) THEN [h EXCEPT ![n].suffixes = EmptyDict] ELSE h

\* Trie.add(item) for any item: the loop "node = node[elem]" runs over the
\* keys before the first unhashable one and raises at that one.
addAny(h, r, l, item) ==
    IF \A j \in 1..Len(item) : hashable(item[j])
    THEN add(h, r, l, item)
    ELSE LET w == addWalk(h, r, SubSeq(item, 1, FirstBad(item) - 1))
         IN  [heap |-> getitemRaises(w.heap, w.node), len |-> l,
              ret |-> FALSE, exc |-> "TypeError"]

\* trie.add(item) with an item that has an unhashable key
AddBadCall(item) ==
    LET r == addAny(heap, root, len, item)
    IN  /\ Cardinality(DOMAIN r.heap) <= MaxNodes
        /\ heap' = Collect(r.heap, Pins)
        /\ len' = r.len
        /\ log' = Entry("add", item, r.ret, r.exc)
        /\ UNCHANGED <<root, sorter, joiner, S, iters, others>>

AddBad == \E item \in BadItems : AddBadCall(item)

NextKeys == Add \/ AddBad \/ Remove \/ Contains

\* Tries changed by add and remove and asked by "in", add being called
\* with unhashable keys too.
SpecKeys == Init /\ [][NextKeys]_vars

\* C28: after every completed add, remove or contains the child mapping of
\* each node is None or holds a child, never an empty mapping: isempty is
\* true exactly of the nodes without children.
C28_NoEmptyMapping ==
    log.exc = "" =>
        \A n \in DOMAIN heap :
            /\ heap[n].suffixes.isNone \/ Len(heap[n].suffixes.d) > 0
            /\ isempty(heap, n) <=> Children(heap, n) = {}

\* C29: an add whose item has an unhashable key raises TypeError and leaves
\* the trie as it was before the call: the same nodes with the same keys,
\* parents, leaf flags and child mappings, the same len, and no node other
\* than the root that is neither a leaf nor has a child.
C29_FailedAddLeavesTrie ==
    log.op = "add" /\ log.item \in BadItems =>
        /\ log.exc = "TypeError"
        /\ heap = log.heap0
        /\ len = log.len0
        /\ \A n \in Nodes : n # root => heap[n].isleaf \/ Children(heap, n) # {}

\* ------------------------------------- add and remove between the pulls
\* it = trie.iter(None, None, dfs), once.  What the trie was when iter was
\* called is not kept.
IterMix ==
    \E dfs \in BOOLEAN :
        /\ iters[1].status = "none"
        /\ iters' = [iters EXCEPT ![1] =
                       [iter(heap, len, "", "", dfs) EXCEPT !.heap0 = <<>>,
                                                            !.len0 = 0]]
        /\ UNCHANGED <<heap, root, len, sorter, joiner, S, log, others>>

\* next(it); the values yielded are not kept.
PullMix ==
    LET r == pull(heap, root, iters[1], sorter, joiner)
    IN  /\ Started(iters[1])
        /\ iters' = [iters EXCEPT ![1] = [r.it EXCEPT !.out = <<>>]]
        /\ heap' = Collect(r.heap, {root} \cup Held(r.it))
        /\ UNCHANGED <<root, len, sorter, joiner, S, log, others>>

NextMix == Change \/ IterMix \/ PullMix

\* One generator, with add and remove called at any point before it is
\* made, between its pulls and after its end.
SpecMix == Init /\ [][NextMix]_vars

\* C30, as stated: no pull creates or deletes a node of the trie, and after
\* every pull no node other than the root is neither a leaf nor has a child
\* and len is the number of leaves, whatever add and remove calls came
\* between the pulls.
C30_PullKeepsTrie ==
    [][PullMix =>
          /\ Nodes' = Nodes
          /\ C2_NoDeadNode'
          /\ C1_LenIsLeafCount']_vars

\* C30, amended: no pull deletes a node of the trie, changes a leaf flag or
\* changes len, so that len is the number of leaves after every pull; a new
\* node is not a leaf; and a breadth-first pull leaves every node of the
\* trie as it was and makes no node.
C30_PullKeepsLeaves ==
    /\ [](TrieLen(len) = Cardinality(Leaves))
    /\ [][PullMix =>
            /\ len' = len
            /\ Nodes \subseteq Nodes'
            /\ \A n \in Nodes : heap'[n].isleaf = heap[n].isleaf
            /\ \A n \in Nodes' \ Nodes : ~heap'[n].isleaf
            /\ ~iters[1].dfs =>
                   /\ Nodes' = Nodes
                   /\ \A n \in Nodes : heap'[n] = heap[n]]_vars

\* A depth-first generator pulled from after a remove has made a node again
\* that the remove had deleted: a node that is not a leaf and has no child.
C30_Witness ==
    /\ iters[1].status \in {"suspended", "done"} /\ iters[1].dfs
    /\ \E n \in Nodes : n # root /\ ~heap[n].isleaf /\ Children(heap, n) = {}
    /\ TrieLen(len) = Cardinality(Leaves)
    /\ TrieLen(len) >= 1

====
